---- MODULE Spec2Model ----
(***************************************************************************)
(* Verification model of the cactus toolkit: the generational SlotMap      *)
(* (src/src/data_structure/slot_map.cpp), the archetype store SmallWorld   *)
(* (src/src/ecs/ecs.cpp) and the dynamic AABB tree and impulse solver of   *)
(* PhysicsWorld (src/src/physics/physics.cpp), and the free-list           *)
(* containers FreelistVector and Pool                                      *)
(* (src/src/data_structure/freelist_vector.cpp, pool.cpp).                 *)
(*                                                                         *)
(* Each part is checked under its own specification (SpecSlotMap,          *)
(* SpecSmallWorld, SpecTree, SpecSolver, SpecFreelist); the variables of   *)
(* the other parts stay at their initial value there.                      *)
(***************************************************************************)
EXTENDS Integers, Sequences, FiniteSets, TLC

VARIABLES
    \* ---- SlotMap<T> ----
    slots,          \* Container<key_type>: per slot (idx, gen) packed in 64 bits
    data_map,       \* Container<key_index_type>: dense position -> slot index
    data,           \* Container<value_type>: dense values
    next_slot_idx,  \* head of the intrusive free list
    issued,         \* observer: every key returned by insert, with its value
    erased,         \* observer: the keys whose element has been erased
    sm_last,        \* observer: the last SlotMap operation and what it returned
    cleared,        \* observer: the keys that had been issued when clear() was called
    \* ---- SmallWorld<Ts...> ----
    entity_specs,   \* FreelistVector<EntitySpec>: entity -> (signature, row)
    archetypes,     \* flat_map<Signature, ArchetypeTable>
    heap_overflow,  \* a write or read left the archetype's allocated buffer
    sw_last,        \* observer: the last SmallWorld operation
    sw_ops,         \* observer: the number of SmallWorld operations so far
    \* ---- PhysicsWorld ----
    margin,         \* PhysicsWorld::margin
    entries,        \* ColliderEntrySet: the entries, by slot index
    nodes,          \* heap of tree nodes: address -> Node
    root,           \* PhysicsWorld::_root
    collided_aabbs, \* PhysicsWorld::_collided_aabbs
    inserted_flag,  \* observer: per entry, the flag given to _tree_insert
    pw_last,        \* observer: the last PhysicsWorld operation
    pw_ops,         \* observer: the number of PhysicsWorld operations so far
    \* ---- FreelistVector<T> and Pool<T> ----
    fv,             \* FreelistVector: (data, next_free_index)
    pool,           \* Pool: (data, next_free_index)
    fv_freed,       \* observer: the slots of fv erased and not yet reused, last first
    pool_freed,     \* observer: the slots of pool erased and not yet reused, last first
    fl_last,        \* observer: the last container operation and what it returned
    \* ---- the signature word of an entity of a SmallWorld of 64 components ----
    sg_signature,   \* entity_specs[entity].signature, as the set of its 1 bits
    sg_last,        \* observer: the last signature operation and the word before it
    sg_ops          \* observer: the number of signature operations so far

smVars == <<slots, data_map, data, next_slot_idx, issued, erased, sm_last, cleared>>
swVars == <<entity_specs, archetypes, heap_overflow, sw_last, sw_ops>>
pwVars == <<margin, entries, nodes, root, collided_aabbs, inserted_flag,
           pw_last, pw_ops>>
flVars == <<fv, pool, fv_freed, pool_freed, fl_last>>
sgVars == <<sg_signature, sg_last, sg_ops>>
vars == <<smVars, swVars, pwVars, flVars, sgVars>>

\* ---------------------------------------------------------------------------
\* Bounds of the model
\* ---------------------------------------------------------------------------
MaxSize == 3        \* SlotMap: most elements stored at once
MaxErases == 2      \* SlotMap: most erases that remove an element in one run
Values == {10, 20}  \* SlotMap: the values inserted
ProbeGens == {0, 1, 7}  \* SlotMap: the generations of the keys looked up
MaxEntities == 2    \* SmallWorld: most entities created
MaxOps == 6         \* SmallWorld: most operations in one run
MaxEntries == 3     \* PhysicsWorld: most entries created
MaxSlots == 3       \* FreelistVector, Pool: most slots of a container
MaxWild == 1        \* FreelistVector, Pool: the elements modelled before and after the sequence
SlotValues == {10}      \* FreelistVector, Pool: the values inserted
MaxTreeOps == 5     \* PhysicsWorld: most operations in one run
Margins == {0, 1}   \* PhysicsWorld: the values of margin
Centers == {<<0, 0>>, <<1, 1>>, <<4, 0>>}  \* PhysicsWorld: entry centers
Groups == {0, 1}    \* PhysicsWorld: the group flags given to _tree_insert
CompVals == {1, 2}  \* SmallWorld: the byte a component value is made of
\* Solver inputs, lengths and velocities in thousandths: the first body is a
\* unit square at the origin, the second a unit square at one of these centers
SolverCenters ==
    {<<900, 0>>, <<-900, 0>>, <<0, 0>>, <<0, 500>>, <<500, 500>>, <<2000, 0>>}
SolverVels == {<<0, 0>>, <<1000, 0>>, <<-1000, 0>>, <<0, 1000>>}
InvMasses == {0, 1}
Restitutions == {0, 1}
FrictionPairs == {<<0, 0>>, <<1, 0>>, <<0, 1>>}  \* (of body 0, of body 1)

\* ---------------------------------------------------------------------------
\* Small helpers
\* ---------------------------------------------------------------------------
At(s, i) == s[i + 1]                     \* 0-based read of a container
Put(s, i, x) == [s EXCEPT ![i + 1] = x]  \* 0-based write of a container
PopBack(s) == SubSeq(s, 1, Len(s) - 1)

\* ===========================================================================
\* SlotMap
\* ===========================================================================
\* A 64-bit key or slot is the pair of its two 32-bit halves: idx is the
\* high half (k >> 32), gen the low half.  A 32-bit half is held as its
\* two's-complement bit pattern, so that gen + 1 wraps as uint32_t does.
Int32Max == 2147483647

get_idx(k) == k.idx
get_gen(k) == k.gen
set_idx(k, value) == [k EXCEPT !.idx = value]
\* variant: the generation is left as it was
increase_gen_keep(k) == k
increase_gen(k) ==
    [k EXCEPT !.gen = IF @ = Int32Max THEN (-Int32Max) - 1 ELSE @ + 1]

end == Len(data)    \* end() as a dense position; begin() is position 0

\* variant: the generation of the key is not compared with the slot's
find_nogen(key) ==
    LET slot_idx == get_idx(key) IN
    IF slot_idx >= Len(slots) THEN end
    ELSE get_idx(At(slots, slot_idx))
\* find(key): end() for a slot index out of range or another generation
find(key) ==
    LET slot_idx == get_idx(key) IN
    IF slot_idx >= Len(slots) THEN end
    ELSE IF get_gen(At(slots, slot_idx)) # get_gen(key) THEN end
    ELSE get_idx(At(slots, slot_idx))

\* at(key): the empty optional is nullopt, else the element pointed to
nullopt == -1
at(key) == IF find(key) = end THEN nullopt ELSE At(data, find(key))

size == Len(data)

\* variant: takes the dense position itself for the slot index
slot_iter_from_data_iter_dense(data_index) == data_index
slot_iter_from_data_iter(data_index) == At(data_map, data_index)

\* emplace(args...): the state after the call and the key returned
emplace_result(v) ==
    LET data_pos == Len(data)
        slots1 == IF next_slot_idx = Len(slots)
                  THEN Append(slots, [idx |-> next_slot_idx + 1, gen |-> 0])
                  ELSE slots
        slot_iter == next_slot_idx
        slot == At(slots1, slot_iter)
        written == set_idx(slot, data_pos)
    IN [slots |-> Put(slots1, slot_iter, written),
        data |-> Append(data, v),
        data_map |-> Append(data_map, next_slot_idx),
        next_slot_idx |-> get_idx(slot),
        res |-> set_idx(written, slot_iter)]

\* variant: the freed slot is not linked in front of the free chain
erase_result_nolink(pos) ==
    LET slot_iter == slot_iter_from_data_iter(pos)
        data_idx == get_idx(At(slots, slot_iter))
        last_data_iter == Len(data) - 1
        last_data_slot_iter == slot_iter_from_data_iter(last_data_iter)
        moved == data_idx # last_data_iter
        data1 == IF moved THEN Put(data, data_idx, At(data, last_data_iter)) ELSE data
        slots1 == IF moved
                  THEN Put(slots, last_data_slot_iter,
                           set_idx(At(slots, last_data_slot_iter), data_idx))
                  ELSE slots
        data_map1 == IF moved THEN Put(data_map, data_idx, last_data_slot_iter)
                     ELSE data_map
    IN [slots |-> Put(slots1, slot_iter, increase_gen(At(slots1, slot_iter))),
        data |-> PopBack(data1),
        data_map |-> PopBack(data_map1),
        next_slot_idx |-> slot_iter,
        res |-> data_idx]

\* variant: the iterator returned is the one after the vacated position
erase_result_next(pos) ==
    LET slot_iter == slot_iter_from_data_iter(pos)
        data_idx == get_idx(At(slots, slot_iter))
        last_data_iter == Len(data) - 1
        last_data_slot_iter == slot_iter_from_data_iter(last_data_iter)
        moved == data_idx # last_data_iter
        data1 == IF moved THEN Put(data, data_idx, At(data, last_data_iter)) ELSE data
        slots1 == IF moved
                  THEN Put(slots, last_data_slot_iter,
                           set_idx(At(slots, last_data_slot_iter), data_idx))
                  ELSE slots
        data_map1 == IF moved THEN Put(data_map, data_idx, last_data_slot_iter)
                     ELSE data_map
        slots2 == Put(slots1, slot_iter, set_idx(At(slots1, slot_iter), next_slot_idx))
    IN [slots |-> Put(slots2, slot_iter, increase_gen(At(slots2, slot_iter))),
        data |-> PopBack(data1),
        data_map |-> PopBack(data_map1),
        next_slot_idx |-> slot_iter,
        res |-> IF moved THEN data_idx + 1 ELSE data_idx]
\* variant: the last element is not moved into the vacated position
erase_result_nomove(pos) ==
    LET slot_iter == slot_iter_from_data_iter(pos)
        data_idx == get_idx(At(slots, slot_iter))
        last_data_iter == Len(data) - 1
        last_data_slot_iter == slot_iter_from_data_iter(last_data_iter)
        moved == data_idx # last_data_iter
        slots1 == IF moved
                  THEN Put(slots, last_data_slot_iter,
                           set_idx(At(slots, last_data_slot_iter), data_idx))
                  ELSE slots
        data_map1 == IF moved THEN Put(data_map, data_idx, last_data_slot_iter)
                     ELSE data_map
        slots2 == Put(slots1, slot_iter, set_idx(At(slots1, slot_iter), next_slot_idx))
    IN [slots |-> Put(slots2, slot_iter, increase_gen(At(slots2, slot_iter))),
        data |-> PopBack(data),
        data_map |-> PopBack(data_map1),
        next_slot_idx |-> slot_iter,
        res |-> data_idx]

\* erase(const_iterator pos): the state after the call and the iterator returned
erase_result(pos) ==
    LET slot_iter == slot_iter_from_data_iter(pos)
        data_idx == get_idx(At(slots, slot_iter))
        last_data_iter == Len(data) - 1
        last_data_slot_iter == slot_iter_from_data_iter(last_data_iter)
        moved == data_idx # last_data_iter
        data1 == IF moved THEN Put(data, data_idx, At(data, last_data_iter)) ELSE data
        slots1 == IF moved
                  THEN Put(slots, last_data_slot_iter,
                           set_idx(At(slots, last_data_slot_iter), data_idx))
                  ELSE slots
        data_map1 == IF moved THEN Put(data_map, data_idx, last_data_slot_iter)
                     ELSE data_map
        slots2 == Put(slots1, slot_iter, set_idx(At(slots1, slot_iter), next_slot_idx))
    IN [slots |-> Put(slots2, slot_iter, increase_gen(At(slots2, slot_iter))),
        data |-> PopBack(data1),
        data_map |-> PopBack(data_map1),
        next_slot_idx |-> slot_iter,
        res |-> data_idx]

\* observer: the issued keys that have not been erased
LiveKeys == {r.key : r \in issued} \ erased
ValueOf(k) == (CHOOSE r \in issued : r.key = k).val
\* observer: the live key issued for the slot that owns dense position pos
KeyAtPos(pos) ==
    {k \in LiveKeys : get_idx(k) = slot_iter_from_data_iter(pos)}

SmInit ==
    /\ slots = <<>>
    /\ data_map = <<>>
    /\ data = <<>>
    /\ next_slot_idx = 0
    /\ issued = {}
    /\ erased = {}
    /\ sm_last = [op |-> "none"]
    /\ cleared = {}

\* insert(value) -> key
Insert(v) ==
    /\ Len(data) < MaxSize
    /\ LET r == emplace_result(v) IN
        /\ slots' = r.slots
        /\ data' = r.data
        /\ data_map' = r.data_map
        /\ next_slot_idx' = r.next_slot_idx
        /\ issued' = issued \cup {[key |-> r.res, val |-> v]}
        /\ sm_last' = [op |-> "insert", key |-> r.res]
    /\ UNCHANGED <<erased, cleared>>

\* erase(iterator pos) for a dereferenceable iterator
EraseIter(pos) ==
    /\ pos \in 0..(Len(data) - 1)
    /\ Cardinality(erased) < MaxErases
    /\ LET r == erase_result(pos) IN
        /\ slots' = r.slots
        /\ data' = r.data
        /\ data_map' = r.data_map
        /\ next_slot_idx' = r.next_slot_idx
        /\ sm_last' = [op |-> "erase_iter", pos |-> pos, res |-> r.res]
    /\ erased' = erased \cup KeyAtPos(pos)
    /\ UNCHANGED <<issued, cleared>>

\* keys a caller holds: every key ever issued, live or stale, and a key that
\* was never issued, of a slot index out of range (slot_map/main.cpp: bad_key)
IssuedKeys == {r.key : r \in issued}
ProbeKeys == {[idx |-> Len(slots), gen |-> 7]}
CallerKeys == IssuedKeys \cup {k \in ProbeKeys : find(k) = end}

\* erase(key)
EraseKey(k) ==
    /\ k \in CallerKeys
    /\ IF find(k) = end
       THEN /\ sm_last' = [op |-> "erase_key", key |-> k, res |-> end, hit |-> FALSE]
            /\ UNCHANGED <<slots, data_map, data, next_slot_idx, issued, erased, cleared>>
       ELSE /\ Cardinality(erased) < MaxErases
            /\ LET r == erase_result(find(k)) IN
                /\ slots' = r.slots
                /\ data' = r.data
                /\ data_map' = r.data_map
                /\ next_slot_idx' = r.next_slot_idx
                /\ sm_last' = [op |-> "erase_key", key |-> k, res |-> r.res, hit |-> TRUE]
            /\ erased' = erased \cup {k}
            /\ UNCHANGED <<issued, cleared>>

\* clear(), called once on a table that has issued keys.  The observers of
\* issued and erased keys start again for the keys issued after the call.
Clear ==
    /\ issued # {}
    /\ cleared = {}
    /\ slots' = <<>>
    /\ data' = <<>>
    /\ data_map' = <<>>
    /\ next_slot_idx' = 0
    /\ cleared' = IssuedKeys
    /\ issued' = {}
    /\ erased' = {}
    /\ sm_last' = [op |-> "clear"]

\* ===========================================================================
\* SmallWorld<ByteComp, ShortComp, Tag>
\* ===========================================================================
\* The component list of the world that is modelled: the byte-sized and the
\* two-byte component types of the test suite. component_id(T) is the
\* position in the list, counted from 0.
Components == {0, 1, 2}
component_size(id) == At(<<1, 2, 1>>, id)

\* a value of component id, as the bytes of its object representation
Bytes(v, id) == [i \in 1..component_size(id) |-> v]

\* size_t arithmetic. A size_t is held as the integer congruent to it modulo
\* 2^64 that is nearest to 0, so that 0 - 1 (SIZE_MAX) is -1.
ULess(a, b) ==
    IF (a < 0) = (b < 0) THEN a < b ELSE b < 0

RECURSIVE Pow2(_)
Pow2(n) == IF n = 0 THEN 1 ELSE 2 * Pow2(n - 1)
\* (signature >> component) & 1
BitOf(signature, component) == (signature \div Pow2(component)) % 2
\* signature | (1 << component)
SetBit(signature, component) ==
    IF BitOf(signature, component) = 1 THEN signature
    ELSE signature + Pow2(component)
\* signature & ~(1 << component)
ClearBit(signature, component) ==
    IF BitOf(signature, component) = 0 THEN signature
    ELSE signature - Pow2(component)

RECURSIVE SumSizes(_, _)
\* the fold over Is = 0 .. n-1 of ((signature >> Is) & 1 ? component_size<Is>() : 0)
SumSizes(signature, n) ==
    IF n = 0 THEN 0
    ELSE SumSizes(signature, n - 1)
         + (IF BitOf(signature, n - 1) = 1 THEN component_size(n - 1) ELSE 0)

archetype_prefab_size(signature) == SumSizes(signature, Cardinality(Components))
component_offset(id, signature) == SumSizes(signature, id)

\* ---- raw memory of an archetype: buf is the block at ArchetypeTable::ptr ----
\* A byte that malloc or realloc returned and nothing has written since, or
\* that lies outside the block, has an indeterminate value: it is kept as
\* Indeterminate, which stands for every value the byte may turn out to hold
\* and so is equal to no byte a component value is made of.
Indeterminate == -1
InBuffer(buf, off, n) == n = 0 \/ (off >= 0 /\ off + n <= Len(buf))
\* memcpy source / pointer read
ReadBytes(buf, off, n) ==
    [i \in 1..n |-> IF off + i - 1 >= 0 /\ off + i - 1 < Len(buf)
                    THEN buf[off + i] ELSE Indeterminate]
\* memcpy destination / construct_at; a byte outside the block is not stored
WriteBytes(buf, off, bytes) ==
    [j \in 1..Len(buf) |->
        IF j - 1 >= off /\ j - 1 < off + Len(bytes) THEN bytes[j - off] ELSE buf[j]]
\* malloc / realloc: a block of n bytes that keeps the bytes of old
Realloc(old, n) == [j \in 1..n |-> IF j <= Len(old) THEN old[j] ELSE Indeterminate]

contains(signature) == signature \in DOMAIN archetypes

\* create_archetype_if_needed(signature), applied to the map arch
create_archetype_if_needed(arch, signature) ==
    IF signature \in DOMAIN arch THEN arch
    ELSE (signature :> [buf |-> Realloc(<<>>, archetype_prefab_size(signature)),
                        size |-> 0,
                        capacity |-> 1,
                        prefab_size |-> archetype_prefab_size(signature)]) @@ arch

\* ++size and the 1.5x growth of emplace and erase, applied to one table
grow_row(t) ==
    LET size1 == t.size + 1
        cap1 == t.capacity + (t.capacity \div 2)
        cap2 == IF cap1 < 2 THEN 2 ELSE cap1
    IN IF ULess(t.capacity, size1)
       THEN [t EXCEPT !.size = size1, !.capacity = cap2,
                      !.buf = Realloc(t.buf, cap2 * t.prefab_size)]
       ELSE [t EXCEPT !.size = size1]

\* swap-and-pop of old_row in the source table
swap_and_pop(t, old_row) ==
    LET last_row == t.size - 1
        copied == IF old_row # last_row
                  THEN WriteBytes(t.buf, old_row * t.prefab_size,
                                  ReadBytes(t.buf, last_row * t.prefab_size,
                                            t.prefab_size))
                  ELSE t.buf
    IN [t EXCEPT !.buf = copied, !.size = t.size - 1]
\* whether the swap-and-pop stays inside the block
swap_and_pop_ok(t, old_row) ==
    old_row = t.size - 1
    \/ (/\ InBuffer(t.buf, old_row * t.prefab_size, t.prefab_size)
        /\ InBuffer(t.buf, (t.size - 1) * t.prefab_size, t.prefab_size))

Entities == 0..(Len(entity_specs) - 1)
spec_of(entity) == At(entity_specs, entity)

\* get<T>(entity): has_value is FALSE for the empty optional; else bytes is
\* what the returned pointer refers to (wild: it points outside the block)
absent == [has_value |-> FALSE, wild |-> FALSE, bytes |-> <<>>]
present(bytes) == [has_value |-> TRUE, wild |-> FALSE, bytes |-> bytes]
get(entity, component) ==
    LET signature == spec_of(entity).signature
        archetype == archetypes[signature]
        column == component_offset(component, signature)
        row == spec_of(entity).row
        off == row * archetype.prefab_size + column
    IN IF BitOf(signature, component) = 0 THEN absent
       ELSE IF ~InBuffer(archetype.buf, off, component_size(component))
       THEN [has_value |-> TRUE, wild |-> TRUE, bytes |-> <<>>]
       ELSE present(ReadBytes(archetype.buf, off, component_size(component)))

\* emplace<T>(entity, args...): the store after the call
emplace_overwrite(entity, component, v) ==
    LET signature == spec_of(entity).signature
        archetype == archetypes[signature]
        column == component_offset(component, signature)
        off == spec_of(entity).row * archetype.prefab_size + column
    IN [specs |-> Put(entity_specs, entity,
                      [signature |-> signature, row |-> archetype.size - 1]),
        arch |-> [archetypes EXCEPT ![signature].buf =
                      WriteBytes(@, off, Bytes(v, component))],
        ok |-> InBuffer(archetype.buf, off, component_size(component))]

emplace_first(entity, component, v) ==
    LET new_signature == SetBit(0, component)
        arch1 == create_archetype_if_needed(archetypes, new_signature)
        new_archetype == grow_row(arch1[new_signature])
        new_row == (new_archetype.size - 1) * new_archetype.prefab_size
    IN [specs |-> Put(entity_specs, entity,
                      [signature |-> new_signature, row |-> new_archetype.size - 1]),
        arch |-> [arch1 EXCEPT ![new_signature] =
                      [new_archetype EXCEPT !.buf =
                          WriteBytes(@, new_row, Bytes(v, component))]],
        ok |-> InBuffer(new_archetype.buf, new_row, component_size(component))]

\* where construct_at((T *)new_row_ptr + column, ...) stores T: the pointer
\* is converted to T* before column is added, so column counts objects of T
construct_at_offset_bytes(new_row, column, component) == new_row + column
construct_at_offset(new_row, column, component) ==
    new_row + column * component_size(component)

emplace_migrate(entity, component, v) ==
    LET signature == spec_of(entity).signature
        new_signature == SetBit(signature, component)
        column == component_offset(component, new_signature)
        arch1 == create_archetype_if_needed(archetypes, new_signature)
        old_archetype == arch1[signature]
        new_archetype == grow_row(arch1[new_signature])
        old_row == spec_of(entity).row
        old_off == old_row * old_archetype.prefab_size
        new_off == (new_archetype.size - 1) * new_archetype.prefab_size
        tail == old_archetype.prefab_size - column
        at_off == construct_at_offset(new_off, column, component)
        buf1 == WriteBytes(new_archetype.buf, new_off,
                           ReadBytes(old_archetype.buf, old_off, column))
        buf2 == WriteBytes(buf1, at_off, Bytes(v, component))
        buf3 == WriteBytes(buf2, new_off + column + component_size(component),
                           ReadBytes(old_archetype.buf, old_off + column, tail))
    IN [specs |-> Put(entity_specs, entity,
                      [signature |-> new_signature, row |-> new_archetype.size - 1]),
        arch |-> [arch1 EXCEPT
                      ![new_signature] = [new_archetype EXCEPT !.buf = buf3],
                      ![signature] = swap_and_pop(old_archetype, old_row)],
        ok |-> /\ InBuffer(old_archetype.buf, old_off, old_archetype.prefab_size)
               /\ InBuffer(new_archetype.buf, new_off, new_archetype.prefab_size)
               /\ InBuffer(new_archetype.buf, at_off, component_size(component))
               /\ swap_and_pop_ok(old_archetype, old_row)]

emplace(entity, component, v) ==
    IF BitOf(spec_of(entity).signature, component) # 0
    THEN emplace_overwrite(entity, component, v)
    ELSE IF spec_of(entity).signature = 0
    THEN emplace_first(entity, component, v)
    ELSE emplace_migrate(entity, component, v)

\* erase<T>(entity): the store after the call
erase_to_empty(entity, component) ==
    LET signature == spec_of(entity).signature
        old_archetype == archetypes[signature]
        old_row == spec_of(entity).row
    IN [specs |-> entity_specs,
        arch |-> [archetypes EXCEPT ![signature] = swap_and_pop(old_archetype, old_row)],
        ok |-> swap_and_pop_ok(old_archetype, old_row)]

erase_migrate_nosuffix(entity, component) ==
    LET signature == spec_of(entity).signature
        new_signature == ClearBit(signature, component)
        column == component_offset(component, signature)
        arch1 == create_archetype_if_needed(archetypes, new_signature)
        old_archetype == arch1[signature]
        new_archetype == grow_row(arch1[new_signature])
        old_row == spec_of(entity).row
        old_off == old_row * old_archetype.prefab_size
        new_off == (new_archetype.size - 1) * new_archetype.prefab_size
        tail == new_archetype.prefab_size - column
        buf1 == WriteBytes(new_archetype.buf, new_off,
                           ReadBytes(old_archetype.buf, old_off, column))
        buf2 == buf1
    IN [specs |-> Put(entity_specs, entity,
                      [signature |-> new_signature, row |-> new_archetype.size - 1]),
        arch |-> [arch1 EXCEPT
                      ![new_signature] = [new_archetype EXCEPT !.buf = buf2],
                      ![signature] = swap_and_pop(old_archetype, old_row)],
        ok |-> /\ InBuffer(old_archetype.buf, old_off, old_archetype.prefab_size)
               /\ InBuffer(new_archetype.buf, new_off, new_archetype.prefab_size)
               /\ swap_and_pop_ok(old_archetype, old_row)]
\* erase<T>(entity) that leaves other components: the row moves to the smaller archetype
erase_migrate(entity, component) ==
    LET signature == spec_of(entity).signature
        new_signature == ClearBit(signature, component)
        column == component_offset(component, signature)
        arch1 == create_archetype_if_needed(archetypes, new_signature)
        old_archetype == arch1[signature]
        new_archetype == grow_row(arch1[new_signature])
        old_row == spec_of(entity).row
        old_off == old_row * old_archetype.prefab_size
        new_off == (new_archetype.size - 1) * new_archetype.prefab_size
        tail == new_archetype.prefab_size - column
        buf1 == WriteBytes(new_archetype.buf, new_off,
                           ReadBytes(old_archetype.buf, old_off, column))
        buf2 == WriteBytes(buf1, new_off + column,
                           ReadBytes(old_archetype.buf,
                                     old_off + column + component_size(component),
                                     tail))
    IN [specs |-> Put(entity_specs, entity,
                      [signature |-> new_signature, row |-> new_archetype.size - 1]),
        arch |-> [arch1 EXCEPT
                      ![new_signature] = [new_archetype EXCEPT !.buf = buf2],
                      ![signature] = swap_and_pop(old_archetype, old_row)],
        ok |-> /\ InBuffer(old_archetype.buf, old_off, old_archetype.prefab_size)
               /\ InBuffer(new_archetype.buf, new_off, new_archetype.prefab_size)
               /\ swap_and_pop_ok(old_archetype, old_row)]

erase(entity, component) ==
    IF BitOf(spec_of(entity).signature, component) = 0
    THEN [specs |-> entity_specs, arch |-> archetypes, ok |-> TRUE]
    ELSE IF ClearBit(spec_of(entity).signature, component) = 0
    THEN erase_to_empty(entity, component)
    ELSE erase_migrate(entity, component)

SwInit ==
    /\ entity_specs = <<>>
    /\ archetypes = <<>>
    /\ heap_overflow = FALSE
    /\ sw_last = [op |-> "none"]
    /\ sw_ops = 0

\* create_entity(): entity_specs.emplace() of a value-initialised EntitySpec
CreateEntity ==
    /\ Len(entity_specs) < MaxEntities
    /\ sw_ops < MaxOps
    /\ sw_ops' = sw_ops + 1
    /\ entity_specs' = Append(entity_specs, [signature |-> 0, row |-> 0])
    /\ sw_last' = [op |-> "create_entity", entity |-> Len(entity_specs)]
    /\ UNCHANGED <<archetypes, heap_overflow>>

Emplace(entity, component, v) ==
    /\ entity \in Entities
    /\ ~heap_overflow
    /\ sw_ops < MaxOps
    /\ sw_ops' = sw_ops + 1
    /\ LET r == emplace(entity, component, v) IN
        /\ entity_specs' = r.specs
        /\ archetypes' = r.arch
        /\ heap_overflow' = ~r.ok
    /\ sw_last' = [op |-> "emplace", entity |-> entity, component |-> component,
                   v |-> v, had |-> BitOf(spec_of(entity).signature, component) = 1,
                   signature |-> spec_of(entity).signature]

Erase(entity, component) ==
    /\ entity \in Entities
    /\ ~heap_overflow
    /\ sw_ops < MaxOps
    /\ sw_ops' = sw_ops + 1
    /\ LET r == erase(entity, component) IN
        /\ entity_specs' = r.specs
        /\ archetypes' = r.arch
        /\ heap_overflow' = ~r.ok
    /\ sw_last' = [op |-> "erase", entity |-> entity, component |-> component,
                   v |-> 0, had |-> BitOf(spec_of(entity).signature, component) = 1,
                   signature |-> spec_of(entity).signature]

\* *get<T>(entity).value() = v: a write through the pointer get returned
WriteThrough(entity, component, v) ==
    /\ entity \in Entities
    /\ ~heap_overflow
    /\ sw_ops < MaxOps
    /\ sw_ops' = sw_ops + 1
    /\ get(entity, component).has_value
    /\ ~get(entity, component).wild
    /\ LET signature == spec_of(entity).signature
           archetype == archetypes[signature]
           off == spec_of(entity).row * archetype.prefab_size
                  + component_offset(component, signature)
       IN archetypes' = [archetypes EXCEPT ![signature].buf =
                             WriteBytes(@, off, Bytes(v, component))]
    /\ sw_last' = [op |-> "write", entity |-> entity, component |-> component,
                   v |-> v, had |-> TRUE, signature |-> spec_of(entity).signature]
    /\ UNCHANGED <<entity_specs, heap_overflow>>

\* ===========================================================================
\* PhysicsWorld: the entry set and the dynamic AABB tree
\* ===========================================================================
\* vec2 is <<x, y>>; an AABB (mat2x2) is [lo |-> a[0], hi |-> a[1]].
\* Coordinates are integers, on which the float operations used are exact.
Min(a, b) == IF a < b THEN a ELSE b
Max(a, b) == IF a > b THEN a ELSE b

get_aabb(coll) ==
    [lo |-> <<coll.center[1] - coll.halfexts[1], coll.center[2] - coll.halfexts[2]>>,
     hi |-> <<coll.center[1] + coll.halfexts[1], coll.center[2] + coll.halfexts[2]>>]
aabb_merge(a, b) ==
    [lo |-> <<Min(a.lo[1], b.lo[1]), Min(a.lo[2], b.lo[2])>>,
     hi |-> <<Max(a.hi[1], b.hi[1]), Max(a.hi[2], b.hi[2])>>]
aabb_intersects(a, b) ==
    /\ a.lo[1] <= b.hi[1] /\ a.lo[2] <= b.hi[2]
    /\ b.lo[1] <= a.hi[1] /\ b.lo[2] <= a.hi[2]
aabb_contains(a, b) ==
    /\ a.lo[1] <= b.lo[1] /\ a.lo[2] <= b.lo[2]
    /\ b.hi[1] <= a.hi[1] /\ b.hi[2] <= a.hi[2]
aabb_volume(a) == (a.hi[1] - a.lo[1]) * (a.hi[2] - a.lo[2])
aabb_expand_margin(a, m) ==
    [lo |-> <<a.lo[1] - m, a.lo[2] - m>>, hi |-> <<a.hi[1] + m, a.hi[2] + m>>]

\* uint8_t flag : 7, and the & of two flags
RECURSIVE BitAnd(_, _)
BitAnd(a, b) ==
    IF a = 0 \/ b = 0 THEN 0
    ELSE 2 * BitAnd(a \div 2, b \div 2) + (IF a % 2 = 1 /\ b % 2 = 1 THEN 1 ELSE 0)

\* A ColliderKey is the pair (first, second) = (slot index, generation) that
\* entries.emplace returns; nothing erases an entry, so the generation is 0.
nullptr == 0
zero_key == [first |-> 0, second |-> 0]
key_of(index) == [first |-> index, second |-> 0]
Keys == {key_of(i) : i \in 0..(Len(entries) - 1)}
\* get(key): the entry the key resolves to
get_entry(es, key) == At(es, key.first)
entry_aabb_of(es, key) == get_aabb(get_entry(es, key).coll)

\* std::pair operator< on keys and on pairs of keys
key_less(a, b) ==
    a.first < b.first \/ (a.first = b.first /\ a.second < b.second)
pair_less(p, q) ==
    key_less(p[1], q[1]) \/ (p[1] = q[1] /\ key_less(p[2], q[2]))

\* malloc(sizeof(Node)): an address that is not allocated
Malloc(ns) ==
    CHOOSE a \in 1..(Cardinality(DOMAIN ns) + 1) :
        /\ a \notin DOMAIN ns
        /\ \A b \in 1..(a - 1) : b \in DOMAIN ns
\* free(node)
Free(ns, node) == [a \in (DOMAIN ns) \ {node} |-> ns[a]]

\* *node = {.key = key, .aabb = ..., .flag = flag}: the rest is zeroed
new_leaf(key, aabb, flag) ==
    [parent |-> nullptr, childs |-> <<nullptr, nullptr>>, key |-> key,
     aabb |-> aabb, flag |-> flag % 128, is_self_check |-> FALSE]

_tree_is_node_leaf(node) == node.childs[1] = nullptr

\* a Node** is the place it points to: &_root, or &at->childs[side]
root_link == [at |-> nullptr, side |-> 0]
child_link(cur, side) == [at |-> cur, side |-> side]
\* *link = node
store_link(w, link, node) ==
    IF link.at = nullptr THEN [w EXCEPT !.root = node]
    ELSE [w EXCEPT !.nodes[link.at].childs[link.side + 1] = node]

\* variant: the node's AABB is left as it was
refit_flag_only(ns, u) ==
    [ns EXCEPT ![u].flag = BitAnd(ns[ns[u].childs[1]].flag, ns[ns[u].childs[2]].flag)]
\* flag and aabb of u recomputed from its two children
refit(ns, u) ==
    [ns EXCEPT ![u].flag = BitAnd(ns[ns[u].childs[1]].flag, ns[ns[u].childs[2]].flag),
               ![u].aabb = aabb_merge(ns[ns[u].childs[1]].aabb, ns[ns[u].childs[2]].aabb)]

RECURSIVE refit_up(_, _)
\* while (ucur_node != nullptr) { refit; ucur_node = ucur_node->parent; }
refit_up(ns, ucur_node) ==
    IF ucur_node = nullptr THEN ns
    ELSE refit_up(refit(ns, ucur_node), ns[ucur_node].parent)

RECURSIVE _tree_find_best_fitnode_helper_overprune(_, _, _, _, _, _)
\* variant: the bound of a subtree counts the merged box, not the new box
_tree_find_best_fitnode_helper_overprune(ns, best, aabb, acml_d, cur, cur_link) ==
    LET merge_aabb == aabb_merge(aabb, ns[cur].aabb)
        cur_value == aabb_volume(merge_aabb) + acml_d
        best1 == IF cur_value < best.value
                 THEN [node |-> cur, link |-> cur_link, value |-> cur_value]
                 ELSE best
        cur_delta == aabb_volume(merge_aabb) - aabb_volume(ns[cur].aabb)
    IN IF _tree_is_node_leaf(ns[cur]) THEN best1
       ELSE IF aabb_volume(merge_aabb) + cur_delta + acml_d < best1.value
       THEN LET best2 == _tree_find_best_fitnode_helper_overprune(
                             ns, best1, aabb, acml_d + cur_delta,
                             ns[cur].childs[1], child_link(cur, 0))
            IN _tree_find_best_fitnode_helper_overprune(
                   ns, best2, aabb, acml_d + cur_delta,
                   ns[cur].childs[2], child_link(cur, 1))
       ELSE best1
RECURSIVE _tree_find_best_fitnode_helper(_, _, _, _, _, _)
_tree_find_best_fitnode_helper(ns, best, aabb, acml_d, cur, cur_link) ==
    LET merge_aabb == aabb_merge(aabb, ns[cur].aabb)
        cur_value == aabb_volume(merge_aabb) + acml_d
        best1 == IF cur_value < best.value
                 THEN [node |-> cur, link |-> cur_link, value |-> cur_value]
                 ELSE best
        cur_delta == aabb_volume(merge_aabb) - aabb_volume(ns[cur].aabb)
    IN IF _tree_is_node_leaf(ns[cur]) THEN best1
       ELSE IF aabb_volume(aabb) + cur_delta + acml_d < best1.value
       THEN LET best2 == _tree_find_best_fitnode_helper(
                             ns, best1, aabb, acml_d + cur_delta,
                             ns[cur].childs[1], child_link(cur, 0))
            IN _tree_find_best_fitnode_helper(
                   ns, best2, aabb, acml_d + cur_delta,
                   ns[cur].childs[2], child_link(cur, 1))
       ELSE best1

\* the common tail of _tree_insert and _tree_handle_reinsert_node: a new
\* parent of (best.node, node) takes best.node's place; ancestors are refitted
link_leaf(w, node, fat_aabb) ==
    LET ns == w.nodes
        best0 == [node |-> w.root, link |-> root_link,
                  value |-> aabb_volume(aabb_merge(fat_aabb, ns[w.root].aabb))]
        best == _tree_find_best_fitnode_helper(ns, best0, fat_aabb, 0, w.root, root_link)
        parent == Malloc(ns)
        parent_node == [parent |-> ns[best.node].parent,
                        childs |-> <<best.node, node>>,
                        key |-> zero_key,
                        aabb |-> aabb_merge(ns[best.node].aabb, fat_aabb),
                        flag |-> BitAnd(ns[best.node].flag, ns[node].flag),
                        is_self_check |-> FALSE]
        ns1 == (parent :> parent_node) @@ ns
        ns2 == [ns1 EXCEPT ![best.node].parent = parent, ![node].parent = parent]
        w1 == store_link([w EXCEPT !.nodes = ns2], best.link, parent)
    IN [w1 EXCEPT !.nodes = refit_up(w1.nodes, parent_node.parent)]

\* entries.emplace((Collider){center, halfexts}, vec2(0, 0), invmass,
\* restitution, sfriction, dfriction, nullptr): the entry takes the next slot
emplace_entry(w, center, halfexts, invmass, restitution, sfriction, dfriction) ==
    [w EXCEPT !.entries =
        Append(@, [coll |-> [center |-> center, halfexts |-> halfexts],
                   vel |-> <<0, 0>>,
                   invmass |-> invmass,
                   restitution |-> restitution,
                   sfriction |-> sfriction,
                   dfriction |-> dfriction,
                   node_ptr |-> nullptr])]

\* _tree_insert(key, flag)
_tree_insert(w, key, flag) ==
    LET node == Malloc(w.nodes)
        fat_aabb == aabb_expand_margin(entry_aabb_of(w.entries, key), w.margin)
        leaf == new_leaf(key, fat_aabb, flag)
        es1 == Put(w.entries, key.first,
                   [get_entry(w.entries, key) EXCEPT !.node_ptr = node])
        w1 == [w EXCEPT !.entries = es1, !.nodes = (node :> leaf) @@ w.nodes]
    IN IF w.root = nullptr THEN [w1 EXCEPT !.root = node]
       ELSE link_leaf(w1, node, fat_aabb)

\* _tree_handle_reinsert_node(node), called with a non-empty tree
_tree_handle_reinsert_node(w, node) ==
    LET fat_aabb == aabb_expand_margin(entry_aabb_of(w.entries, w.nodes[node].key),
                                       w.margin)
    IN link_leaf([w EXCEPT !.nodes[node].aabb = fat_aabb], node, fat_aabb)

\* variant: every leaf below cur is reported, valid or not
RECURSIVE _tree_get_invalid_nodes_helper_all(_, _)
_tree_get_invalid_nodes_helper_all(w, cur) ==
    IF _tree_is_node_leaf(w.nodes[cur]) THEN <<cur>>
    ELSE _tree_get_invalid_nodes_helper_all(w, w.nodes[cur].childs[1])
         \o _tree_get_invalid_nodes_helper_all(w, w.nodes[cur].childs[2])

RECURSIVE _tree_get_invalid_nodes_helper(_, _)
\* the invalid leaves below cur, in the order they are appended
_tree_get_invalid_nodes_helper(w, cur) ==
    IF _tree_is_node_leaf(w.nodes[cur])
    THEN IF ~aabb_contains(w.nodes[cur].aabb, entry_aabb_of(w.entries, w.nodes[cur].key))
         THEN <<cur>> ELSE <<>>
    ELSE _tree_get_invalid_nodes_helper(w, w.nodes[cur].childs[1])
         \o _tree_get_invalid_nodes_helper(w, w.nodes[cur].childs[2])

\* one round of the loop of _tree_update: detach node, free its parent, reinsert
detach_and_reinsert(w, node) ==
    LET ns == w.nodes
        parent == ns[node].parent
        sibling == IF node = ns[parent].childs[1] THEN ns[parent].childs[2]
                   ELSE ns[parent].childs[1]
        grand == ns[parent].parent
        parent_link == IF grand # nullptr
                       THEN (IF parent = ns[grand].childs[1] THEN child_link(grand, 0)
                             ELSE child_link(grand, 1))
                       ELSE root_link
        w1 == [w EXCEPT !.nodes[sibling].parent = grand]
        w2 == store_link(w1, parent_link, sibling)
        w3 == [w2 EXCEPT !.nodes = Free(w2.nodes, parent)]
    IN _tree_handle_reinsert_node(w3, node)

RECURSIVE update_loop(_, _, _)
update_loop(w, invalid_list, i) ==
    IF i > Len(invalid_list) THEN w
    ELSE update_loop(detach_and_reinsert(w, invalid_list[i]), invalid_list, i + 1)

\* _tree_update()
_tree_update(w) ==
    IF w.root = nullptr THEN w
    ELSE IF _tree_is_node_leaf(w.nodes[w.root])
    THEN LET entry_collider == entry_aabb_of(w.entries, w.nodes[w.root].key)
         IN IF ~aabb_contains(w.nodes[w.root].aabb, entry_collider)
            THEN [w EXCEPT !.nodes[w.root].aabb =
                               aabb_expand_margin(entry_collider, w.margin)]
            ELSE w
    ELSE update_loop(w, _tree_get_invalid_nodes_helper(w, w.root), 1)

RECURSIVE _tree_remove_helper(_, _, _, _)
\* _tree_remove_helper(entry_key, cur, cur_link): the world afterwards, and res
_tree_remove_helper(w, entry_key, cur, cur_link) ==
    LET c0 == w.nodes[cur].childs[1]
        c1 == w.nodes[cur].childs[2]
        entry_aabb == entry_aabb_of(w.entries, entry_key)
        found0 == _tree_is_node_leaf(w.nodes[c0]) /\ w.nodes[c0].key = entry_key
        \* after the first child has been searched
        r0 == IF ~_tree_is_node_leaf(w.nodes[c0])
                 /\ aabb_contains(w.nodes[c0].aabb, entry_aabb)
              THEN _tree_remove_helper(w, entry_key, c0, child_link(cur, 0))
              ELSE [w |-> w, res |-> FALSE]
        w0 == r0.w
        d0 == w0.nodes[cur].childs[1]
        found1 == _tree_is_node_leaf(w0.nodes[c1]) /\ w0.nodes[c1].key = entry_key
        \* after the second child has been searched
        r1 == IF ~_tree_is_node_leaf(w0.nodes[c1])
                 /\ aabb_contains(w0.nodes[c1].aabb, entry_aabb)
              THEN _tree_remove_helper(w0, entry_key, c1, child_link(cur, 1))
              ELSE [w |-> w0, res |-> FALSE]
        res == r0.res \/ r1.res
    IN IF found0
       THEN LET wa == store_link(w, cur_link, c1)
                wb == [wa EXCEPT !.nodes[c1].parent = w.nodes[cur].parent]
            IN [w |-> [wb EXCEPT !.nodes = Free(Free(wb.nodes, c0), cur)], res |-> TRUE]
       ELSE IF found1
       THEN LET wa == store_link(w0, cur_link, d0)
                wb == [wa EXCEPT !.nodes[d0].parent = w0.nodes[cur].parent]
            IN [w |-> [wb EXCEPT !.nodes = Free(Free(wb.nodes, c1), cur)], res |-> TRUE]
       ELSE IF res
       THEN [w |-> [r1.w EXCEPT !.nodes = refit(r1.w.nodes, cur)], res |-> TRUE]
       ELSE [w |-> r1.w, res |-> FALSE]

\* variant: a root that is a leaf is removed whatever key it carries
_tree_remove_anyleaf(w, key) ==
    IF w.root = nullptr THEN [w |-> w, res |-> FALSE]
    ELSE IF _tree_is_node_leaf(w.nodes[w.root])
    THEN [w |-> [w EXCEPT !.root = nullptr], res |-> TRUE]
    ELSE _tree_remove_helper(w, key, w.root, root_link)
\* _tree_remove(key): the world afterwards, and the value returned
_tree_remove(w, key) ==
    IF w.root = nullptr THEN [w |-> w, res |-> FALSE]
    ELSE IF _tree_is_node_leaf(w.nodes[w.root])
    THEN IF key = w.nodes[w.root].key
         \* _root = nullptr; free(_root): the node itself is not freed
         THEN [w |-> [w EXCEPT !.root = nullptr], res |-> TRUE]
         ELSE [w |-> w, res |-> FALSE]
    ELSE _tree_remove_helper(w, key, w.root, root_link)

RECURSIVE _tree_uncheck_selfcheck_flag_helper(_, _)
_tree_uncheck_selfcheck_flag_helper(ns, cur) ==
    LET ns1 == [ns EXCEPT ![cur].is_self_check = FALSE]
    IN IF _tree_is_node_leaf(ns[cur]) THEN ns1
       ELSE _tree_uncheck_selfcheck_flag_helper(
                _tree_uncheck_selfcheck_flag_helper(ns1, ns[cur].childs[1]),
                ns[cur].childs[2])

\* the leaf/leaf case: whether the keys of the two nodes are exchanged
\* variant: the two keys are compared as keys
swap_keys_by_key(k0, k1) == key_less(k1, k0)
swap_keys(k0, k1) == k0.first > k1.second

RECURSIVE _tree_get_collided_pairs_helper(_, _, _)
RECURSIVE _tree_handle_self_collide_pair(_, _)
\* st is [w, list]: the world and the pair list built so far
_tree_handle_self_collide_pair(st, node) ==
    IF ~st.w.nodes[node].is_self_check
    THEN LET st1 == _tree_get_collided_pairs_helper(
                        st, st.w.nodes[node].childs[1], st.w.nodes[node].childs[2])
         IN [st1 EXCEPT !.w.nodes[node].is_self_check = TRUE]
    ELSE st

self_if_ungrouped(st, node) ==
    IF st.w.nodes[node].flag = 0 THEN _tree_handle_self_collide_pair(st, node) ELSE st

_tree_get_collided_pairs_helper(st, node0, node1) ==
    LET ns == st.w.nodes
        n0 == ns[node0]
        n1 == ns[node1]
        leaf0 == _tree_is_node_leaf(n0)
        leaf1 == _tree_is_node_leaf(n1)
    IN IF BitAnd(n0.flag, n1.flag) # 0 THEN st
       ELSE IF leaf0 /\ leaf1
       THEN IF aabb_intersects(entry_aabb_of(st.w.entries, n0.key),
                               entry_aabb_of(st.w.entries, n1.key))
            THEN LET swap == swap_keys(n0.key, n1.key)
                     key0 == IF swap THEN n1.key ELSE n0.key
                     key1 == IF swap THEN n0.key ELSE n1.key
                 IN [w |-> [st.w EXCEPT !.nodes[node0].key = key0,
                                        !.nodes[node1].key = key1],
                     list |-> Append(st.list, <<key0, key1>>)]
            ELSE st
       ELSE IF ~aabb_intersects(n0.aabb, n1.aabb)
       THEN LET s1 == IF ~leaf0 THEN self_if_ungrouped(st, node0) ELSE st
            IN IF ~leaf1 THEN self_if_ungrouped(s1, node1) ELSE s1
       ELSE IF leaf0
       THEN LET s1 == self_if_ungrouped(st, node1)
                s2 == _tree_get_collided_pairs_helper(s1, node0, n1.childs[1])
            IN _tree_get_collided_pairs_helper(s2, node0, n1.childs[2])
       ELSE IF leaf1
       THEN LET s1 == self_if_ungrouped(st, node0)
                s2 == _tree_get_collided_pairs_helper(s1, n0.childs[1], node1)
            IN _tree_get_collided_pairs_helper(s2, n0.childs[2], node1)
       ELSE LET s1 == self_if_ungrouped(st, node0)
                s2 == self_if_ungrouped(s1, node1)
                s3 == _tree_get_collided_pairs_helper(s2, n0.childs[1], n1.childs[1])
                s4 == _tree_get_collided_pairs_helper(s3, n0.childs[1], n1.childs[2])
                s5 == _tree_get_collided_pairs_helper(s4, n0.childs[2], n1.childs[1])
            IN _tree_get_collided_pairs_helper(s5, n0.childs[2], n1.childs[2])

RECURSIVE sort_insert(_, _)
\* p put into the sorted sequence s, before the first element greater than it
sort_insert(s, p) ==
    IF s = <<>> THEN <<p>>
    ELSE IF pair_less(p, Head(s)) THEN <<p>> \o s
    ELSE <<Head(s)>> \o sort_insert(Tail(s), p)
RECURSIVE sort_pairs(_)
\* std::sort(res.begin(), res.end())
sort_pairs(s) ==
    IF s = <<>> THEN <<>>
    ELSE sort_insert(sort_pairs(SubSeq(s, 1, Len(s) - 1)), s[Len(s)])

\* _tree_get_collided_pairs(): the world afterwards, and the list returned
_tree_get_collided_pairs(w) ==
    IF w.root = nullptr THEN [w |-> w, list |-> <<>>]
    ELSE IF _tree_is_node_leaf(w.nodes[w.root]) THEN [w |-> w, list |-> <<>>]
    ELSE LET w1 == [w EXCEPT !.nodes = _tree_uncheck_selfcheck_flag_helper(w.nodes, w.root)]
             st == _tree_get_collided_pairs_helper(
                       [w |-> w1, list |-> <<>>],
                       w1.nodes[w1.root].childs[1], w1.nodes[w1.root].childs[2])
         IN [w |-> st.w, list |-> sort_pairs(st.list)]

\* the world as one record, and the leaves of its tree
World == [margin |-> margin, entries |-> entries, nodes |-> nodes, root |-> root]
RECURSIVE NodesBelow(_, _)
NodesBelow(ns, cur) ==
    IF cur = nullptr THEN {}
    ELSE {cur} \cup NodesBelow(ns, ns[cur].childs[1]) \cup NodesBelow(ns, ns[cur].childs[2])
TreeNodes == NodesBelow(nodes, root)
Leaves == {n \in TreeNodes : _tree_is_node_leaf(nodes[n])}
Internals == TreeNodes \ Leaves
LeafKeys == {nodes[n].key : n \in Leaves}

\* std::lower_bound(s.begin(), s.end(), p) on a sorted s: the 0-based position
\* of the first element that is not less than p (Len(s) is end())
lower_bound(s, p) == Cardinality({i \in 1..Len(s) : pair_less(s[i], p)})

\* is_collided(k0, k1)
is_collided(k0, k1) ==
    LET swap == k0.first > k1.first
        a == IF swap THEN k1 ELSE k0
        b == IF swap THEN k0 ELSE k1
        it == lower_bound(collided_aabbs, <<a, b>>)
    IN IF it # Len(collided_aabbs)
       THEN aabb_intersects(entry_aabb_of(entries, a), entry_aabb_of(entries, b))
       ELSE FALSE

\* ---- the impulse solver ----
\* In SpecSolver a float is held as an integer number of thousandths for
\* centers, half-extents and velocities (so slop = 0.01 is 10 and percent =
\* 0.8 is 8/10), and as a plain integer for invmass, restitution and the
\* friction coefficients; the inputs are chosen so that every quotient of
\* resolve_collider is exact. NaN is the float that is not a number.
NaN == -999999
slop == 10
Abs(x) == IF x < 0 THEN -x ELSE x
dot(a, b) == a[1] * b[1] + a[2] * b[2]
\* glm::length, for the vectors whose length is a whole number
length(v) ==
    IF v[1] = 0 THEN Abs(v[2])
    ELSE IF v[2] = 0 THEN Abs(v[1])
    ELSE CHOOSE r \in 0..(Abs(v[1]) + Abs(v[2])) : r * r = dot(v, v)

\* create(center, halfexts, invmass, restitution, sfriction, dfriction)
create(w, center, halfexts, invmass, restitution, sfriction, dfriction) ==
    _tree_insert(emplace_entry(w, center, halfexts, invmass, restitution,
                               sfriction, dfriction),
                 key_of(Len(w.entries)), 0)

\* the contact of e0 and e1: minimum-overlap axis, penetration and normal
contact(e0, e1) ==
    LET delta == <<e1.coll.center[1] - e0.coll.center[1],
                   e1.coll.center[2] - e0.coll.center[2]>>
        overlap == <<(e0.coll.halfexts[1] + e1.coll.halfexts[1]) - Abs(delta[1]),
                     (e0.coll.halfexts[2] + e1.coll.halfexts[2]) - Abs(delta[2])>>
    IN IF overlap[1] < overlap[2]
       THEN [penetration |-> overlap[1],
             normal |-> <<IF delta[1] > 0 THEN 1 ELSE -1, 0>>]
       ELSE [penetration |-> overlap[2],
             normal |-> <<0, IF delta[2] > 0 THEN 1 ELSE -1>>]

\* velAlongNormal of the pair (k0, k1)
velAlongNormal(es, k0, k1) ==
    LET e0 == get_entry(es, k0)
        e1 == get_entry(es, k1)
    IN dot(<<e1.vel[1] - e0.vel[1], e1.vel[2] - e0.vel[2]>>, contact(e0, e1).normal)

\* variant: the pair is never taken to be separating
is_separating_never(vn) == FALSE
\* if (velAlongNormal > 0.0f) return;
is_separating(vn) == vn > 0

\* the friction part of resolve_collider, on the entries after the normal
\* impulse and the positional correction; j is the normal impulse
apply_friction(e0, e1, normal, j) ==
    LET sum == e0.invmass + e1.invmass
        relVel == <<e1.vel[1] - e0.vel[1], e1.vel[2] - e0.vel[2]>>
        vn == dot(relVel, normal)
        tangent0 == <<relVel[1] - vn * normal[1], relVel[2] - vn * normal[2]>>
        tangentLen == length(tangent0)
        tangent == <<tangent0[1] \div tangentLen, tangent0[2] \div tangentLen>>
        jt == (-dot(relVel, tangent)) \div sum
        mu == length(<<e0.sfriction, e1.sfriction>>)
        dmu == length(<<e0.dfriction, e1.dfriction>>)
        frictionImpulse ==
            IF Abs(jt) < j * mu THEN <<jt * tangent[1], jt * tangent[2]>>
            ELSE <<(-j) * tangent[1] * dmu, (-j) * tangent[2] * dmu>>
    IN \* tangentLen > 0.0001f, in thousandths
       IF tangentLen * 10 > 1
       THEN [e0 |-> [e0 EXCEPT !.vel = <<@[1] - e0.invmass * frictionImpulse[1],
                                         @[2] - e0.invmass * frictionImpulse[2]>>],
             e1 |-> [e1 EXCEPT !.vel = <<@[1] + e1.invmass * frictionImpulse[1],
                                         @[2] + e1.invmass * frictionImpulse[2]>>]]
       ELSE [e0 |-> e0, e1 |-> e1]

\* resolve_collider(k0, k1): the entries afterwards
resolve_collider(es, k0, k1) ==
    LET e0 == get_entry(es, k0)
        e1 == get_entry(es, k1)
        c == contact(e0, e1)
        normal == c.normal
        vn == velAlongNormal(es, k0, k1)
        restitution == Min(e0.restitution, e1.restitution)
        sum == e0.invmass + e1.invmass
        \* sum == 0: j, impulse and correction are infinite or NaN, their
        \* product with invmass 0 is NaN, and so are vel and center of both
        \* entries; tangentLen is NaN and the friction part is skipped
        nan0 == [e0 EXCEPT !.vel = <<NaN, NaN>>, !.coll.center = <<NaN, NaN>>]
        nan1 == [e1 EXCEPT !.vel = <<NaN, NaN>>, !.coll.center = <<NaN, NaN>>]
        j == ((-(1 + restitution)) * vn) \div sum
        impulse == <<j * normal[1], j * normal[2]>>
        \* max(penetration - slop, 0) / sum * percent
        magnitude == (Max(c.penetration - slop, 0) * 8) \div (10 * sum)
        correction == <<normal[1] * magnitude, normal[2] * magnitude>>
        a0 == [e0 EXCEPT !.vel = <<@[1] - e0.invmass * impulse[1],
                                   @[2] - e0.invmass * impulse[2]>>,
                         !.coll.center = <<@[1] - e0.invmass * correction[1],
                                           @[2] - e0.invmass * correction[2]>>]
        a1 == [e1 EXCEPT !.vel = <<@[1] + e1.invmass * impulse[1],
                                   @[2] + e1.invmass * impulse[2]>>,
                         !.coll.center = <<@[1] + e1.invmass * correction[1],
                                           @[2] + e1.invmass * correction[2]>>]
        f == apply_friction(a0, a1, normal, j)
    IN IF is_separating(vn) THEN es
       ELSE IF sum = 0 THEN Put(Put(es, k0.first, nan0), k1.first, nan1)
       ELSE Put(Put(es, k0.first, f.e0), k1.first, f.e1)

SetWorld(w) ==
    /\ entries' = w.entries
    /\ nodes' = w.nodes
    /\ root' = w.root
    /\ UNCHANGED margin

PwInit ==
    /\ margin \in Margins
    /\ entries = <<>>
    /\ nodes = <<>>
    /\ root = nullptr
    /\ collided_aabbs = <<>>
    /\ inserted_flag = <<>>
    /\ pw_last = [op |-> "none"]
    /\ pw_ops = 0

\* create(center, halfexts, ...): entries.emplace(...) and _tree_insert(key, flag);
\* create itself passes no flag, which is flag 0
Create(center, flag) ==
    /\ Len(entries) < MaxEntries
    /\ pw_ops < MaxTreeOps
    /\ pw_ops' = pw_ops + 1
    /\ LET key == key_of(Len(entries))
           w == emplace_entry(World, center, <<1, 1>>, 1, 1, 0, 0)
       IN /\ SetWorld(_tree_insert(w, key, flag))
          /\ pw_last' = [op |-> "create", res |-> TRUE, moved |-> 0]
    /\ inserted_flag' = Append(inserted_flag, flag % 128)
    /\ UNCHANGED collided_aabbs

\* the host moves an entry between two steps
Move(key, center) ==
    /\ key \in Keys
    /\ pw_ops < MaxTreeOps
    /\ pw_ops' = pw_ops + 1
    /\ get_entry(entries, key).coll.center # center
    /\ entries' = Put(entries, key.first,
                      [get_entry(entries, key) EXCEPT !.coll.center = center])
    /\ pw_last' = [op |-> "move", res |-> TRUE, moved |-> 0]
    /\ UNCHANGED <<margin, nodes, root, collided_aabbs, inserted_flag>>

\* update(dt)
Update ==
    /\ pw_ops < MaxTreeOps
    /\ pw_ops' = pw_ops + 1
    /\ LET w1 == _tree_update(World)
           r == _tree_get_collided_pairs(w1)
       IN /\ SetWorld(r.w)
          /\ collided_aabbs' = r.list
          /\ pw_last' = [op |-> "update", res |-> TRUE,
                         moved |-> IF root = nullptr \/ _tree_is_node_leaf(nodes[root])
                                   THEN 0
                                   ELSE Len(_tree_get_invalid_nodes_helper(World, root))]
    /\ UNCHANGED inserted_flag

\* _tree_remove(key)
Remove(key) ==
    /\ key \in Keys
    /\ pw_ops < MaxTreeOps
    /\ pw_ops' = pw_ops + 1
    /\ LET r == _tree_remove(World, key)
       IN /\ SetWorld(r.w)
          /\ pw_last' = [op |-> "remove", res |-> r.res, moved |-> 0,
                         key |-> key, had |-> key \in LeafKeys]
    /\ UNCHANGED <<collided_aabbs, inserted_flag>>

\* resolve_collider(k0, k1), applied once to the pair the run starts with
Resolve(k0, k1) ==
    /\ k0 \in Keys /\ k1 \in Keys /\ k0 # k1
    /\ pw_ops = 0
    /\ pw_ops' = pw_ops + 1
    /\ entries' = resolve_collider(entries, k0, k1)
    /\ pw_last' = [op |-> "resolve", k0 |-> k0, k1 |-> k1,
                   vn |-> velAlongNormal(entries, k0, k1)]
    /\ UNCHANGED <<margin, nodes, root, collided_aabbs, inserted_flag>>

\* ===========================================================================
\* FreelistVector<int> and Pool<int>
\* ===========================================================================
\* size_type(-1): the free list is empty
npos == -1

\* An element is the union {value, next} and the flag valid: u holds the value
\* of a valid slot and the next free slot of an erased one.

\* FreelistVector::emplace(args...): the container after the call and the
\* index returned
fv_emplace(c, v) ==
    IF c.next_free_index = npos
    THEN [c |-> [c EXCEPT !.data = Append(@, [valid |-> TRUE, u |-> v])],
          res |-> Len(c.data)]
    ELSE LET index == c.next_free_index IN
         [c |-> [data |-> Put(c.data, index, [valid |-> TRUE, u |-> v]),
                 next_free_index |-> At(c.data, index).u],
          res |-> index]

\* variant: the erased slot does not remember the previous head
fv_erase_drop(c, index) ==
    IF ~At(c.data, index).valid THEN c
    ELSE [data |-> Put(c.data, index, [valid |-> FALSE, u |-> npos]),
          next_free_index |-> index]
\* FreelistVector::erase(size_type index), index < data.size()
fv_erase(c, index) ==
    IF ~At(c.data, index).valid THEN c
    ELSE [data |-> Put(c.data, index, [valid |-> FALSE, u |-> c.next_free_index]),
          next_free_index |-> index]

\* Pool::emplace(args...): the container after the call and the index of the
\* iterator returned
pool_emplace(c, v) ==
    IF c.next_free_index = npos
    THEN [c |-> [c EXCEPT !.data = Append(@, [valid |-> TRUE, u |-> v])],
          res |-> Len(c.data)]
    ELSE LET index == c.next_free_index IN
         [c |-> [data |-> Put(c.data, index, [valid |-> TRUE, u |-> v]),
                 next_free_index |-> At(c.data, index).u],
          res |-> index]

\* Pool::erase(size_type index), index < data.size()
pool_erase(c, index) ==
    IF ~At(c.data, index).valid THEN c
    ELSE [data |-> Put(c.data, index, [valid |-> FALSE, u |-> c.next_free_index]),
          next_free_index |-> index]

\* What the memory around the elements holds. An iterator reads
\* data()[j].valid without asking whether j < size(); for j outside
\* 0..size()-1 the read is outside the sequence and gives whatever is there:
\* mem[j - size()] for j >= size() and mem[j] for j < 0 (j = -1 is the index
\* size_type(-1)).
MemoryOutcomes == [(-MaxWild)..(MaxWild - 1) -> BOOLEAN]
InWindow(c, j) == j \in (-MaxWild)..(Len(c.data) + MaxWild - 1)
valid_at(c, j, mem) ==
    IF j \in 0..(Len(c.data) - 1) THEN At(c.data, j).valid
    ELSE IF j >= Len(c.data) THEN mem[j - Len(c.data)]
    ELSE mem[j]

\* FreelistVector::begin() and end(), as indices
RECURSIVE fv_begin_from(_, _)
fv_begin_from(c, i) ==
    IF i < Len(c.data) /\ ~At(c.data, i).valid THEN fv_begin_from(c, i + 1) ELSE i
fv_begin(c) == fv_begin_from(c, 0)
fv_end(c) == Len(c.data)

\* variant: the next index, valid or not
fv_inc_noskip(c, index, mem) == index + 1
RECURSIVE fv_inc_while(_, _, _)
\* while (!_data->data()[_index].valid && _index < _data->size()) ++_index;
fv_inc_while(c, index, mem) ==
    IF ~valid_at(c, index, mem) /\ index < Len(c.data)
    THEN fv_inc_while(c, index + 1, mem)
    ELSE index
\* FreelistVector::_iterator::operator++
fv_inc(c, index, mem) == fv_inc_while(c, index + 1, mem)

RECURSIVE fv_inc_while_reads(_, _, _)
\* the indices whose valid flag the loop of operator++ reads: the left operand
\* of && is evaluated at every test, before _index < _data->size()
fv_inc_while_reads(c, index, mem) ==
    {index} \cup (IF ~valid_at(c, index, mem) /\ index < Len(c.data)
                  THEN fv_inc_while_reads(c, index + 1, mem)
                  ELSE {})
\* FreelistVector::_iterator::operator++: the indices whose valid flag it reads
fv_inc_reads(c, index, mem) == fv_inc_while_reads(c, index + 1, mem)

\* for (auto &v : fv): the indices dereferenced, in order
RECURSIVE fv_for(_, _, _)
fv_for(c, it, mem) ==
    IF it = fv_end(c) THEN <<>>
    ELSE <<it>> \o fv_for(c, fv_inc(c, it, mem), mem)

\* Pool::begin() and end(), as indices
pool_begin(c) == 0
pool_end(c) == Len(c.data)

\* variant: the next index, valid or not
pool_inc_noskip(c, index, mem) == index + 1
RECURSIVE pool_inc_while(_, _, _)
\* while (!_root[_index].valid) ++_index;  (followed as far as the memory
\* modelled reaches)
pool_inc_while(c, index, mem) ==
    IF ~InWindow(c, index) THEN index
    ELSE IF ~valid_at(c, index, mem) THEN pool_inc_while(c, index + 1, mem)
    ELSE index
\* Pool::_iterator::operator++
pool_inc(c, index, mem) == pool_inc_while(c, index + 1, mem)

RECURSIVE pool_dec_while(_, _, _)
\* while (!_root[_index].valid) --_index;
pool_dec_while(c, index, mem) ==
    IF ~InWindow(c, index) THEN index
    ELSE IF ~valid_at(c, index, mem) THEN pool_dec_while(c, index - 1, mem)
    ELSE index
\* Pool::_iterator::operator--
pool_dec(c, index, mem) == pool_dec_while(c, index - 1, mem)

\* for (int v : p): the indices dereferenced, in order. An index outside
\* 0..size()-1 is a dereference outside the sequence; the loop is followed
\* no further than that.
RECURSIVE pool_for(_, _, _)
pool_for(c, it, mem) ==
    IF it = pool_end(c) THEN <<>>
    ELSE IF it \notin 0..(Len(c.data) - 1) THEN <<it>>
    ELSE <<it>> \o pool_for(c, pool_inc(c, it, mem), mem)

\* for (auto it = p.rbegin(); it != p.rend(); ++it): the indices dereferenced.
\* std::reverse_iterator dereferences the iterator before its base and steps
\* by decrementing the base.
RECURSIVE pool_rfor(_, _, _)
pool_rfor(c, base, mem) ==
    IF base = pool_begin(c) THEN <<>>
    ELSE LET before == pool_dec(c, base, mem) IN
         IF before \notin 0..(Len(c.data) - 1) THEN <<before>>
         ELSE <<before>> \o pool_rfor(c, before, mem)

FlInit ==
    /\ fv = [data |-> <<>>, next_free_index |-> npos]
    /\ pool = [data |-> <<>>, next_free_index |-> npos]
    /\ fv_freed = <<>>
    /\ pool_freed = <<>>
    /\ fl_last = [c |-> "none", op |-> "none", index |-> 0, reused |-> FALSE]

\* fv.insert(v)
FvInsert(v) ==
    /\ Len(fv.data) < MaxSlots \/ fv.next_free_index # npos
    /\ LET r == fv_emplace(fv, v) IN
        /\ fv' = r.c
        /\ fl_last' = [c |-> "fv", op |-> "insert", index |-> r.res,
                       reused |-> fv_freed # <<>>]
    /\ fv_freed' = IF fv_freed # <<>> THEN Tail(fv_freed) ELSE fv_freed
    /\ UNCHANGED <<pool, pool_freed>>

\* fv.erase(index) with an index below data.size()
FvErase(index) ==
    /\ index \in 0..(Len(fv.data) - 1)
    /\ fv' = fv_erase(fv, index)
    /\ fv_freed' = IF At(fv.data, index).valid THEN <<index>> \o fv_freed ELSE fv_freed
    /\ fl_last' = [c |-> "fv", op |-> "erase", index |-> index, reused |-> FALSE]
    /\ UNCHANGED <<pool, pool_freed>>

RECURSIVE fv_erase_range_while(_, _, _)
\* while (last_index != first_index) { --last_index; this->erase(last_index); }
\* the container afterwards and the slots invalidated, last invalidated first
fv_erase_range_while(r, first_index, last_index) ==
    IF last_index = first_index THEN r
    ELSE LET index == last_index - 1
             hit == At(r.c.data, index).valid
         IN fv_erase_range_while(
                [c |-> fv_erase(r.c, index),
                 freed |-> IF hit THEN <<index>> \o r.freed ELSE r.freed],
                first_index, index)
\* FreelistVector::erase(iterator first, iterator last), the iterators given
\* as their indices
fv_erase_range(c, first, last) ==
    LET first_index == first - fv_begin(c)
        last_index == last - fv_begin(c)
    IN fv_erase_range_while([c |-> c, freed |-> <<>>], first_index, last_index)

\* the iterators of fv a caller can hold: one per valid slot, and end()
FvIterators == {i \in 0..(Len(fv.data) - 1) : At(fv.data, i).valid} \cup {fv_end(fv)}

\* fv.erase(first, last) for a range of iterators of fv
FvEraseRange(first, last) ==
    /\ first \in FvIterators /\ last \in FvIterators
    /\ first <= last
    /\ LET r == fv_erase_range(fv, first, last) IN
        /\ fv' = r.c
        /\ fv_freed' = r.freed \o fv_freed
    /\ fl_last' = [c |-> "fv", op |-> "erase_range", index |-> first, reused |-> FALSE,
                   last |-> last]
    /\ UNCHANGED <<pool, pool_freed>>

\* p.insert(v)
PoolInsert(v) ==
    /\ Len(pool.data) < MaxSlots \/ pool.next_free_index # npos
    /\ LET r == pool_emplace(pool, v) IN
        /\ pool' = r.c
        /\ fl_last' = [c |-> "pool", op |-> "insert", index |-> r.res,
                       reused |-> pool_freed # <<>>]
    /\ pool_freed' = IF pool_freed # <<>> THEN Tail(pool_freed) ELSE pool_freed
    /\ UNCHANGED <<fv, fv_freed>>

\* p.erase(index) with an index below data.size()
PoolErase(index) ==
    /\ index \in 0..(Len(pool.data) - 1)
    /\ pool' = pool_erase(pool, index)
    /\ pool_freed' = IF At(pool.data, index).valid THEN <<index>> \o pool_freed
                     ELSE pool_freed
    /\ fl_last' = [c |-> "pool", op |-> "erase", index |-> index, reused |-> FALSE]
    /\ UNCHANGED <<fv, fv_freed>>

\* ===========================================================================
\* The signature word of SmallWorld<Ts...> with sizeof...(Ts) = 64
\* ===========================================================================
\* Signature is uint64_t; component_id<T>() is a size_t in 0..63.  A word is
\* held as the set of the positions of its 1 bits.  The mask of emplace and
\* erase is the expression 1 << component, whose left operand is an int: the
\* shift is done in 32 bits and the int result is converted to uint64_t.
MaxSigOps == 2
SigIds == {0, 1, 30, 31, 32, 63}
Int32Bits == 0..31

\* the int 1 << component, as the set of its 1 bits.  A shift count of 32 or
\* more is undefined: the shift instruction uses the count modulo 32, constant
\* folding yields 0.
shl_int_one(component) ==
    IF component < 32 THEN {{component}}
    ELSE {{component % 32}, {}}
\* implicit conversion int -> uint64_t: the sign bit is extended
int_to_uint64(m) == m \cup (IF 31 \in m THEN 32..63 ELSE {})
\* ~m on an int
int_not(m) == Int32Bits \ m
\* signature | (1 << component): the words the build can produce
emplace_new_signature(signature, component) ==
    {signature \cup int_to_uint64(m) : m \in shl_int_one(component)}
\* signature & ~(1 << component): the words the build can produce
erase_new_signature(signature, component) ==
    {signature \cap int_to_uint64(int_not(m)) : m \in shl_int_one(component)}

SgInit ==
    /\ sg_signature = {}
    /\ sg_last = [op |-> "none"]
    /\ sg_ops = 0

\* emplace<T>(entity), component_id<T>() = component: the signature it stores
SgEmplace(component) ==
    /\ sg_ops < MaxSigOps
    /\ sg_ops' = sg_ops + 1
    /\ IF component \in sg_signature
       THEN sg_signature' = sg_signature
       ELSE sg_signature' \in emplace_new_signature(sg_signature, component)
    /\ sg_last' = [op |-> "emplace", component |-> component, before |-> sg_signature]

\* erase<T>(entity), component_id<T>() = component: the signature it stores
SgErase(component) ==
    /\ sg_ops < MaxSigOps
    /\ sg_ops' = sg_ops + 1
    /\ IF component \notin sg_signature
       THEN sg_signature' = sg_signature
       ELSE sg_signature' \in erase_new_signature(sg_signature, component)
    /\ sg_last' = [op |-> "erase", component |-> component, before |-> sg_signature]

Init == SmInit /\ SwInit /\ PwInit /\ FlInit /\ SgInit

\* two bodies made by create(), to which the host has given velocities
InitSolver ==
    /\ SmInit
    /\ SwInit
    /\ FlInit
    /\ SgInit
    /\ margin = 0
    /\ \E center \in SolverCenters, vel0 \in SolverVels, vel1 \in SolverVels,
          invmass0 \in InvMasses, invmass1 \in InvMasses,
          restitution0 \in Restitutions, restitution1 \in Restitutions,
          sfriction \in FrictionPairs, dfriction \in FrictionPairs :
        LET w0 == [margin |-> 0, entries |-> <<>>, nodes |-> <<>>, root |-> nullptr]
            w1 == create(w0, <<0, 0>>, <<500, 500>>, invmass0, restitution0,
                         sfriction[1], dfriction[1])
            w2 == create(w1, center, <<500, 500>>, invmass1, restitution1,
                         sfriction[2], dfriction[2])
        IN /\ entries = [w2.entries EXCEPT ![1].vel = vel0, ![2].vel = vel1]
           /\ nodes = w2.nodes
           /\ root = w2.root
    /\ collided_aabbs = <<>>
    /\ inserted_flag = <<0, 0>>
    /\ pw_last = [op |-> "none"]
    /\ pw_ops = 0

NextSlotMap ==
    \/ \E v \in Values : Insert(v) /\ UNCHANGED <<swVars, pwVars, flVars, sgVars>>
    \/ \E pos \in 0..(MaxSize - 1) : EraseIter(pos) /\ UNCHANGED <<swVars, pwVars, flVars, sgVars>>
    \/ \E k \in CallerKeys : EraseKey(k) /\ UNCHANGED <<swVars, pwVars, flVars, sgVars>>

SpecSlotMap == Init /\ [][NextSlotMap]_vars

NextSlotMapClear ==
    \/ \E v \in Values : Insert(v) /\ UNCHANGED <<swVars, pwVars, flVars, sgVars>>
    \/ \E pos \in 0..(MaxSize - 1) : EraseIter(pos) /\ UNCHANGED <<swVars, pwVars, flVars, sgVars>>
    \/ \E k \in CallerKeys : EraseKey(k) /\ UNCHANGED <<swVars, pwVars, flVars, sgVars>>
    \/ Clear /\ UNCHANGED <<swVars, pwVars, flVars, sgVars>>

SpecSlotMapClear == Init /\ [][NextSlotMapClear]_vars

NextSmallWorld ==
    \/ CreateEntity /\ UNCHANGED <<smVars, pwVars, flVars, sgVars>>
    \/ \E entity \in Entities, component \in Components, v \in CompVals :
        Emplace(entity, component, v) /\ UNCHANGED <<smVars, pwVars, flVars, sgVars>>
    \/ \E entity \in Entities, component \in Components :
        Erase(entity, component) /\ UNCHANGED <<smVars, pwVars, flVars, sgVars>>
    \/ \E entity \in Entities, component \in Components, v \in CompVals :
        WriteThrough(entity, component, v) /\ UNCHANGED <<smVars, pwVars, flVars, sgVars>>

SpecSmallWorld == Init /\ [][NextSmallWorld]_vars

NextTree ==
    \/ \E center \in Centers, flag \in Groups :
        Create(center, flag) /\ UNCHANGED <<smVars, swVars, flVars, sgVars>>
    \/ \E key \in Keys, center \in Centers :
        Move(key, center) /\ UNCHANGED <<smVars, swVars, flVars, sgVars>>
    \/ Update /\ UNCHANGED <<smVars, swVars, flVars, sgVars>>
    \/ \E key \in Keys : Remove(key) /\ UNCHANGED <<smVars, swVars, flVars, sgVars>>

SpecTree == Init /\ [][NextTree]_vars

NextFreelist ==
    \/ \E v \in SlotValues : FvInsert(v) /\ UNCHANGED <<smVars, swVars, pwVars, sgVars>>
    \/ \E index \in 0..(MaxSlots - 1) : FvErase(index) /\ UNCHANGED <<smVars, swVars, pwVars, sgVars>>
    \/ \E first \in 0..MaxSlots, last \in 0..MaxSlots :
        FvEraseRange(first, last) /\ UNCHANGED <<smVars, swVars, pwVars, sgVars>>
    \/ \E v \in SlotValues : PoolInsert(v) /\ UNCHANGED <<smVars, swVars, pwVars, sgVars>>
    \/ \E index \in 0..(MaxSlots - 1) : PoolErase(index) /\ UNCHANGED <<smVars, swVars, pwVars, sgVars>>

SpecFreelist == Init /\ [][NextFreelist]_vars

NextSignature ==
    \/ \E component \in SigIds : SgEmplace(component) /\ UNCHANGED <<smVars, swVars, pwVars, flVars>>
    \/ \E component \in SigIds : SgErase(component) /\ UNCHANGED <<smVars, swVars, pwVars, flVars>>

SpecSignature == Init /\ [][NextSignature]_vars

NextSolver ==
    \E k0 \in Keys, k1 \in Keys : Resolve(k0, k1) /\ UNCHANGED <<smVars, swVars, flVars, sgVars>>

SpecSolver == InitSolver /\ [][NextSolver]_vars

\* ---------------------------------------------------------------------------
\* Claims about SlotMap
\* ---------------------------------------------------------------------------

C2_LiveKeysResolve ==
    /\ \A k \in LiveKeys :
        /\ find(k) # end
        /\ find(k) \in 0..(size - 1)
        /\ At(data, find(k)) = ValueOf(k)
    /\ \A k, l \in LiveKeys : k # l => find(k) # find(l)

\* the case of C2: the last erase moved the last element into the vacated
\* position, and the live key of the moved element resolves there
C2_Witness_MovedByErase ==
    /\ sm_last.op \in {"erase_key", "erase_iter"}
    /\ \E k \in LiveKeys :
        /\ find(k) = sm_last.res
        /\ find(k) # end
        /\ get_idx(k) # find(k)
    /\ Cardinality(LiveKeys) >= 2

\* C3: dense packing. size() is the number of inserts whose key has not been
\* erased, and the positions begin()..end() hold exactly the live values:
\* every position is the element of one live key.
C3_DensePacking ==
    /\ size = Cardinality(LiveKeys)
    /\ \A pos \in 0..(size - 1) :
        \E k \in LiveKeys : find(k) = pos /\ At(data, pos) = ValueOf(k)

\* the case of C3: elements remain after an erase in the middle
C3_Witness_AfterErase ==
    /\ erased # {}
    /\ size >= 2
    /\ sm_last.op \in {"erase_key", "erase_iter"}
    /\ sm_last.res < end

\* ---------------------------------------------------------------------------
\* Claims about SmallWorld
\* ---------------------------------------------------------------------------

\* C4: emplace/get round trip. After emplace<T>(e, v) on an entity that did
\* not have T, get<T>(e) is present and equals v, whatever other components
\* e holds (also components of lower ID, which make T's column non-zero).
C4_EmplaceGetRoundTrip ==
    (sw_last.op = "emplace" /\ ~sw_last.had)
        => get(sw_last.entity, sw_last.component)
               = present(Bytes(sw_last.v, sw_last.component))

\* C5: erase. After erase<T>(e), bit id(T) of e's signature is clear and
\* get<T>(e) is absent, whether T was e's only component, one of several, or
\* not present at all.
C5_EraseClearsComponent ==
    sw_last.op = "erase"
        => /\ BitOf(spec_of(sw_last.entity).signature, sw_last.component) = 0
           /\ get(sw_last.entity, sw_last.component) = absent

\* C6: entity isolation. An emplace<T>(e1, ...), an erase<T>(e1) or a write
\* through get<T>(e1) leaves get<U>(e2) as it was, for every other entity e2
\* and every component U.
C6_EntityIsolation ==
    [][\A e1 \in Entities :
        (sw_last'.op \in {"emplace", "erase", "write"} /\ sw_last'.entity = e1)
            => \A e2 \in Entities \ {e1} : \A u \in Components :
                   get(e2, u)' = get(e2, u)]_vars

\* C7: archetype row consistency. Every entity with a non-zero signature has
\* row < archetypes[signature].size; a swap-and-pop updates the row of the
\* entity whose components were moved from the last row.
C7_RowConsistency ==
    \A e \in Entities :
        spec_of(e).signature # 0
            => /\ contains(spec_of(e).signature)
               /\ spec_of(e).row >= 0
               /\ spec_of(e).row < archetypes[spec_of(e).signature].size

\* ---------------------------------------------------------------------------
\* Claims about the AABB tree
\* ---------------------------------------------------------------------------

\* C8: leaf containment. After every update(), every leaf's stored fat-AABB
\* contains the tight AABB (center +- halfexts) of the entry whose handle the
\* leaf carries, wherever the host put the entries before.
C8_LeafContainsEntry ==
    pw_last.op = "update"
        => \A n \in Leaves :
               aabb_contains(nodes[n].aabb, entry_aabb_of(entries, nodes[n].key))

\* C9: parent containment. After any sequence of tree inserts, removes and
\* refits, the AABB of every internal node contains the AABBs of both of its
\* children.
C9_ParentContainsChildren ==
    \A n \in Internals :
        /\ aabb_contains(nodes[n].aabb, nodes[nodes[n].childs[1]].aabb)
        /\ aabb_contains(nodes[n].aabb, nodes[nodes[n].childs[2]].aabb)

\* the case of C9: an update has detached and reinserted a leaf of a tree of
\* three leaves, so an internal node sits below the root
C9_Witness_RefitThreeLeaves ==
    /\ pw_last.op = "update"
    /\ pw_last.moved >= 1
    /\ Cardinality(Leaves) >= 3
    /\ \E n \in Internals : nodes[n].parent # nullptr

\* C10: pair completeness. The pair list the overlap enumeration returns
\* holds every unordered pair of leaves whose stored fat-AABBs intersect and
\* whose group masks share no bit.
C10_PairCompleteness ==
    pw_last.op = "update"
        => \A a \in Leaves : \A b \in Leaves \ {a} :
               (/\ aabb_intersects(nodes[a].aabb, nodes[b].aabb)
                /\ BitAnd(nodes[a].flag, nodes[b].flag) = 0)
               => \E i \in 1..Len(collided_aabbs) :
                      collided_aabbs[i] \in {<<nodes[a].key, nodes[b].key>>,
                                             <<nodes[b].key, nodes[a].key>>}

\* C11: pair sortedness and uniqueness. The pair list of the last overlap
\* enumeration is strictly lexicographically increasing: sorted, and no pair
\* appears twice.
C11_PairsStrictlyIncreasing ==
    \A i \in 1..(Len(collided_aabbs) - 1) :
        pair_less(collided_aabbs[i], collided_aabbs[i + 1])

\* C12: pair normalisation. Every pair (a, b) of the list has a = min and
\* b = max of the two handles.
C12_PairsNormalised ==
    \A i \in 1..Len(collided_aabbs) :
        ~key_less(collided_aabbs[i][2], collided_aabbs[i][1])

\* C13: pair soundness and group suppression. After update() the list holds
\* only pairs of distinct handles that have a leaf, whose entries' AABBs
\* intersect and whose group masks, as given at insert, share no bit.
C13_PairSoundness ==
    pw_last.op = "update"
        => \A i \in 1..Len(collided_aabbs) :
               LET a == collided_aabbs[i][1]
                   b == collided_aabbs[i][2]
               IN /\ a # b
                  /\ a \in LeafKeys /\ b \in LeafKeys
                  /\ aabb_intersects(entry_aabb_of(entries, a), entry_aabb_of(entries, b))
                  /\ BitAnd(At(inserted_flag, a.first), At(inserted_flag, b.first)) = 0

\* C14: is_collided(k0, k1) is true iff the unordered pair {k0, k1} is in the
\* cached pair list and the two entries' tight AABBs intersect now; the
\* result is the same for (k0, k1) and (k1, k0).
C14_IsCollided ==
    \A k0 \in Keys : \A k1 \in Keys \ {k0} :
        /\ is_collided(k0, k1)
             = (/\ \E i \in 1..Len(collided_aabbs) :
                      collided_aabbs[i] \in {<<k0, k1>>, <<k1, k0>>}
                /\ aabb_intersects(entry_aabb_of(entries, k0),
                                   entry_aabb_of(entries, k1)))
        /\ is_collided(k0, k1) = is_collided(k1, k0)

\* C15: remove of a present handle. _tree_remove(key) for a key that a leaf
\* carries returns true; afterwards no leaf carries the key and the leaf's
\* sibling stands where the leaf's parent stood, wherever the host has moved
\* the entry since the last refit.
C15_RemovePresent ==
    [][\A n \in Leaves :
        (/\ pw_last'.op = "remove"
         /\ pw_ops' = pw_ops + 1
         /\ pw_last'.key = nodes[n].key)
        => /\ pw_last'.res
           /\ pw_last'.key \notin LeafKeys'
           /\ LET parent == nodes[n].parent
                  sibling == IF nodes[parent].childs[1] = n
                             THEN nodes[parent].childs[2]
                             ELSE nodes[parent].childs[1]
                  grand == nodes[parent].parent
              IN IF parent = nullptr THEN root' = nullptr
                 ELSE /\ sibling \in DOMAIN nodes'
                      /\ nodes'[sibling].parent = grand
                      /\ IF grand = nullptr THEN root' = sibling
                         ELSE \E side \in 1..2 :
                                  /\ nodes[grand].childs[side] = parent
                                  /\ nodes'[grand].childs[side] = sibling]_vars

\* C16: remove of an absent handle. _tree_remove(key) for a key that no leaf
\* carries returns false and leaves the root and every node as they were:
\* for the empty tree, a tree of one leaf and larger trees.
C16_RemoveAbsent ==
    [][(/\ pw_last'.op = "remove"
        /\ pw_ops' = pw_ops + 1
        /\ pw_last'.key \notin LeafKeys)
       => /\ ~pw_last'.res
          /\ nodes' = nodes
          /\ root' = root]_vars

\* the case of C16: a remove of a key without a leaf has returned, and the
\* tree it was given has an internal root
C16_Witness_AbsentInLargerTree ==
    /\ pw_last.op = "remove"
    /\ ~pw_last.had
    /\ ~pw_last.res
    /\ Cardinality(Leaves) >= 2

\* ---------------------------------------------------------------------------
\* Claims about the impulse solver
\* ---------------------------------------------------------------------------

\* C17: infinite-mass guard. resolve_collider on a pair with
\* a.invmass + b.invmass == 0 skips the pair: the velocities and centers of
\* both entries are what they were.
C17_InfiniteMassGuard ==
    [][(/\ pw_last'.op = "resolve"
        /\ pw_ops' = pw_ops + 1
        /\ get_entry(entries, pw_last'.k0).invmass
             + get_entry(entries, pw_last'.k1).invmass = 0)
       => \A k \in Keys :
              /\ get_entry(entries', k).vel = get_entry(entries, k).vel
              /\ get_entry(entries', k).coll.center = get_entry(entries, k).coll.center]_vars

\* C18: separating-velocity guard. If dot(b.vel - a.vel, n) > 0 before the
\* call, resolve_collider leaves the velocities of both entries unchanged and
\* applies no positional correction.
C18_SeparatingGuard ==
    [][(/\ pw_last'.op = "resolve"
        /\ pw_ops' = pw_ops + 1
        /\ pw_last'.vn > 0)
       => \A k \in Keys :
              /\ get_entry(entries', k).vel = get_entry(entries, k).vel
              /\ get_entry(entries', k).coll.center = get_entry(entries, k).coll.center]_vars

\* the case of C18: resolve_collider has returned for an overlapping pair of
\* finite mass that was separating along the contact normal
C18_Witness_SeparatingOverlap ==
    /\ pw_last.op = "resolve"
    /\ pw_last.vn > 0
    /\ get_entry(entries, pw_last.k0).invmass + get_entry(entries, pw_last.k1).invmass > 0
    /\ contact(get_entry(entries, pw_last.k0), get_entry(entries, pw_last.k1)).penetration > slop

\* C19: solver symmetry. resolve_collider(k0, k1) and resolve_collider(k1, k0)
\* from the same state give both entries the same velocities and centers,
\* also when the centers coincide on the contact axis or the overlaps are equal.
C19_SolverSymmetry ==
    [][(/\ pw_last'.op = "resolve"
        /\ pw_ops' = pw_ops + 1)
       => \A k \in Keys :
              LET other == resolve_collider(entries, pw_last'.k1, pw_last'.k0)
              IN /\ get_entry(entries', k).vel = get_entry(other, k).vel
                 /\ get_entry(entries', k).coll.center = get_entry(other, k).coll.center]_vars

\* ---------------------------------------------------------------------------
\* Claims about SmallWorld, continued
\* ---------------------------------------------------------------------------

C22_OverwriteInPlace ==
    [][\A e \in Entities : \A c \in Components :
        (/\ sw_last'.op = "emplace"
         /\ sw_ops' = sw_ops + 1
         /\ sw_last'.entity = e
         /\ sw_last'.component = c
         /\ sw_last'.had)
        => /\ spec_of(e)' = spec_of(e)
           /\ get(e, c)' = present(Bytes(sw_last'.v, c))
           /\ \A e2 \in Entities \ {e} : \A u \in Components :
                  get(e2, u)' = get(e2, u)]_vars

\* C27: lookup miss. For a key whose slot index is >= slots.size() or whose
\* generation differs from the slot's stored generation, find returns end(),
\* at returns the empty optional, and erase(key) returns end() and leaves
\* slots, data, data_map and next_slot_idx as they were.
LookupKeys ==
    IssuedKeys \cup {[idx |-> i, gen |-> g] : i \in 0..Len(slots), g \in ProbeGens}
KeyMisses(k) ==
    \/ get_idx(k) >= Len(slots)
    \/ get_gen(At(slots, get_idx(k))) # get_gen(k)
C27_LookupMiss ==
    [][/\ \A k \in LookupKeys' :
            KeyMisses(k)' => find(k)' = end' /\ at(k)' = nullopt
       /\ (sm_last'.op = "erase_key" /\ KeyMisses(sm_last'.key))
            => /\ sm_last'.res = end'
               /\ UNCHANGED <<slots, data, data_map, next_slot_idx>>]_vars
\* erase(key) missed with a stale key of a slot in range while elements are stored
C27_Witness_StaleKeyMiss ==
    /\ sm_last.op = "erase_key"
    /\ ~sm_last.hit
    /\ get_idx(sm_last.key) < Len(slots)
    /\ sm_last.key \in erased
    /\ Len(data) > 0

\* the step is an erase that removed the element at dense position i
ErasedAt(i) ==
    \/ sm_last'.op = "erase_iter" /\ sm_last'.pos = i
    \/ sm_last'.op = "erase_key" /\ sm_last'.hit /\ find(sm_last'.key) = i

\* C28 as stated: erase of the element at dense position i returns the
\* iterator at position i, which refers to the element that was last before
\* the erase, or equals end() if the table is empty after the erase; so
\* erase(k) of a live key returns end() only when the table becomes empty.
C28_EraseReturn_AsStated ==
    [][\A i \in 0..(Len(data) - 1) :
        ErasedAt(i)
        => /\ sm_last'.res = i
           /\ IF Len(data') = 0
              THEN sm_last'.res = end'
              ELSE /\ sm_last'.res < Len(data')
                   /\ At(data', sm_last'.res) = At(data, Len(data) - 1)
           /\ (sm_last'.op = "erase_key" /\ sm_last'.res = end')
                  => Len(data') = 0]_vars

\* C28 amended: erase of the element at dense position i returns the iterator
\* at position i; when i was not the last position it refers to the element
\* that was last before the erase, and when i was the last position it equals
\* end(), whether or not the table is empty; so erase(k) of a live key returns
\* end() exactly when k's element was in the last dense position.
C28_EraseReturn ==
    [][\A i \in 0..(Len(data) - 1) :
        ErasedAt(i)
        => /\ sm_last'.res = i
           /\ Len(data') = Len(data) - 1
           /\ IF i = Len(data) - 1
              THEN sm_last'.res = end'
              ELSE /\ sm_last'.res < end'
                   /\ At(data', sm_last'.res) = At(data, Len(data) - 1)]_vars
\* an erase of the last dense position returned end() with elements left
C28_Witness_LastOfMany ==
    /\ sm_last.op \in {"erase_iter", "erase_key"}
    /\ sm_last.op = "erase_key" => sm_last.hit
    /\ sm_last.res = end
    /\ Len(data) > 0

\* C29: tree group invariant. After any sequence of inserts with a group,
\* removes and refits, the group of every internal node is the bitwise AND of
\* the groups of its two children.
C29_GroupIsAndOfChildren ==
    \A u \in Internals :
        nodes[u].flag = BitAnd(nodes[nodes[u].childs[1]].flag,
                               nodes[nodes[u].childs[2]].flag)

\* every node below cur in left-first preorder, each with its cost for a new
\* leaf of box aabb: the area of the node's box merged with aabb, plus the
\* growth of each strict ancestor's box (inherited)
RECURSIVE PreorderCosts(_, _, _, _)
PreorderCosts(ns, cur, aabb, inherited) ==
    LET direct == aabb_volume(aabb_merge(ns[cur].aabb, aabb))
        growth == direct - aabb_volume(ns[cur].aabb)
        here == <<[node |-> cur, cost |-> direct + inherited]>>
    IN IF _tree_is_node_leaf(ns[cur]) THEN here
       ELSE here \o PreorderCosts(ns, ns[cur].childs[1], aabb, inherited + growth)
                 \o PreorderCosts(ns, ns[cur].childs[2], aabb, inherited + growth)
\* the first node in preorder of minimal cost
OptimalSibling(aabb) ==
    LET s == PreorderCosts(nodes, root, aabb, 0)
        least == CHOOSE m \in {s[j].cost : j \in 1..Len(s)} :
                     \A j \in 1..Len(s) : m <= s[j].cost
        first == CHOOSE i \in 1..Len(s) :
                     s[i].cost = least /\ \A j \in 1..(i - 1) : s[j].cost # least
    IN s[first]
\* the node the search of _tree_insert picks for a new leaf of box aabb
SearchedSibling(aabb) ==
    _tree_find_best_fitnode_helper(
        nodes,
        [node |-> root, link |-> root_link,
         value |-> aabb_volume(aabb_merge(aabb, nodes[root].aabb))],
        aabb, 0, root, root_link)
\* the fat box of a collider of half extents (1, 1) centred at c
FatBoxAt(c) ==
    aabb_expand_margin(get_aabb([center |-> c, halfexts |-> <<1, 1>>]), margin)

\* C30: insertion picks the optimal sibling. On every tree the program builds
\* (a tree is new after a create, an update or a remove) and for every new leaf, the node the branch-and-bound search returns has the
\* minimum cost over all nodes of the tree (merged area plus the growth of the
\* strict ancestors), and is the first such node in left-first preorder.
C30_OptimalSibling ==
    (root # nullptr /\ pw_last.op \in {"create", "update", "remove"}) =>
        \A c \in Centers :
            LET found == SearchedSibling(FatBoxAt(c))
                optimal == OptimalSibling(FatBoxAt(c))
            IN found.node = optimal.node /\ found.value = optimal.cost
\* a tree of three leaves in which the best sibling for some new leaf lies two
\* levels below the root and the search returns it
C30_Witness_DeepSibling ==
    /\ root # nullptr
    /\ Cardinality(TreeNodes) = 5
    /\ \E c \in Centers :
        LET o == OptimalSibling(FatBoxAt(c))
        IN /\ nodes[o.node].parent \notin {nullptr, root}
           /\ SearchedSibling(FatBoxAt(c)).node = o.node

\* C23: free-list LIFO reuse, FreelistVector and Pool. An insert returns the
\* slot erased last among those not yet reused and appends no slot while the
\* free list is non-empty (so after erase(a), erase(b) the next two inserts
\* return b, then a); with an empty free list it appends one slot.
C23_LifoReuse ==
    [][/\ (fl_last'.op = "insert" /\ fl_last'.c = "fv")
            => IF fv_freed # <<>>
               THEN /\ fl_last'.index = Head(fv_freed)
                    /\ Len(fv'.data) = Len(fv.data)
                    /\ At(fv'.data, fl_last'.index).valid
               ELSE /\ fl_last'.index = Len(fv.data)
                    /\ Len(fv'.data) = Len(fv.data) + 1
       /\ (fl_last'.op = "insert" /\ fl_last'.c = "pool")
            => IF pool_freed # <<>>
               THEN /\ fl_last'.index = Head(pool_freed)
                    /\ Len(pool'.data) = Len(pool.data)
                    /\ At(pool'.data, fl_last'.index).valid
               ELSE /\ fl_last'.index = Len(pool.data)
                    /\ Len(pool'.data) = Len(pool.data) + 1]_vars
\* an insert reused the slot erased last while an earlier erased slot waits
C23_Witness_SecondErasedReusedFirst ==
    /\ fl_last.op = "insert"
    /\ fl_last.c = "fv"
    /\ fl_last.reused
    /\ fv_freed # <<>>
    /\ Len(fv.data) = 3

\* the indices of the valid slots of c, ascending and descending
ValidSlots(c) == {i \in 0..(Len(c.data) - 1) : At(c.data, i).valid}
Ascending(S) ==
    [k \in 1..Cardinality(S) |->
        CHOOSE x \in S : Cardinality({y \in S : y < x}) = k - 1]
Descending(S) ==
    [k \in 1..Cardinality(S) |->
        CHOOSE x \in S : Cardinality({y \in S : y > x}) = k - 1]

\* C24: FreelistVector iteration. begin()..end() visits exactly the valid
\* slots, each once, in ascending index order, and nothing when the container
\* is empty or all slots are erased, whatever the memory after the last
\* element holds.
C24_FvIterationVisitsValid ==
    \A mem \in MemoryOutcomes :
        fv_for(fv, fv_begin(fv), mem) = Ascending(ValidSlots(fv))
\* three slots of which the first and the last are erased
C24_Witness_ErasedAtBothEnds ==
    /\ Len(fv.data) = 3
    /\ ValidSlots(fv) = {1}

\* C25 as stated: Pool iteration does not skip invalid slots: from every index
\* below the last, ++ moves to the next index, valid or erased.
C25_PoolVisitsEveryIndex ==
    \A mem \in MemoryOutcomes :
        \A i \in 0..(Len(pool.data) - 2) : pool_inc(pool, i, mem) = i + 1

\* C25 amended: Pool iteration skips erased slots except at begin(): begin()
\* is index 0 whether slot 0 is valid or erased, and ++ moves an iterator at
\* index i to the least index above i whose slot is valid, when there is one
\* below size().
C25_PoolSkipsErasedAfterBegin ==
    /\ pool_begin(pool) = 0
    /\ \A mem \in MemoryOutcomes :
        \A i \in 0..(Len(pool.data) - 1) :
            LET after == {j \in ValidSlots(pool) : j > i} IN
            after # {} =>
                /\ pool_inc(pool, i, mem) \in after
                /\ \A j \in after : pool_inc(pool, i, mem) <= j
\* slot 0 and the middle slot are erased and the last is valid
C25_Witness_ErasedFirstAndMiddle ==
    /\ Len(pool.data) = 3
    /\ ValidSlots(pool) = {2}

\* C26: Pool iteration as tested. The forward traversal visits exactly the
\* non-erased slots in ascending index order and the reverse traversal visits
\* them in descending order; both end at end() / rend().
C26_PoolTraversals ==
    \A mem \in MemoryOutcomes :
        /\ pool_for(pool, pool_begin(pool), mem) = Ascending(ValidSlots(pool))
        /\ pool_rfor(pool, pool_end(pool), mem) = Descending(ValidSlots(pool))

\* the leaves whose stored fat box no longer contains the box of their entry
InvalidLeaves ==
    {n \in Leaves : ~aabb_contains(nodes[n].aabb, entry_aabb_of(entries, nodes[n].key))}
\* what the refit writes of a node: its box, its links and its group
RefitFields(n) ==
    [aabb |-> n.aabb, parent |-> n.parent, childs |-> n.childs, flag |-> n.flag]

RECURSIVE FreeChainFrom(_, _)
FreeChainFrom(i, fuel) ==
    IF fuel = 0 \/ i < 0 \/ i >= Len(slots) THEN <<>>
    ELSE <<i>> \o FreeChainFrom(get_idx(At(slots, i)), fuel - 1)
FreeChain == FreeChainFrom(next_slot_idx, Len(slots) + 1)
\* where the walk of the free chain stops
FreeChainEnd ==
    IF FreeChain = <<>> THEN next_slot_idx
    ELSE get_idx(At(slots, FreeChain[Len(FreeChain)]))
\* observer: the slots of the live keys, and the other slots
LiveSlots == {get_idx(k) : k \in LiveKeys}
FreeSlots == (0..(Len(slots) - 1)) \ LiveSlots

\* C32: data and data_map have the same size; every live slot holds a dense
\* position below data.size whose data_map entry is the index of the slot; the
\* chain from next_slot_idx visits every free slot exactly once, visits no
\* live slot, and ends at slots.size.
C32_RepresentationInvariant ==
    /\ Len(data) = Len(data_map)
    /\ \A s \in LiveSlots :
          /\ get_idx(At(slots, s)) \in 0..(Len(data) - 1)
          /\ At(data_map, get_idx(At(slots, s))) = s
    /\ Len(FreeChain) = Cardinality(FreeSlots)
    /\ {FreeChain[i] : i \in 1..Len(FreeChain)} = FreeSlots
    /\ FreeChainEnd = Len(slots)
\* two slots are free, chained most recently erased first, beside a live one
C32_Witness_ChainOfTwo ==
    /\ Len(FreeChain) = 2
    /\ FreeChain[1] > FreeChain[2]
    /\ LiveSlots # {}

\* a < b for two 32-bit fields read as uint32_t: the patterns with the top bit
\* set (held as negative numbers) are the larger ones
Uint32Less(a, b) == IF (a < 0) = (b < 0) THEN a < b ELSE b < 0

\* A SlotMap that has been in use for a long time: slot 0 has been issued and
\* erased 2^32 - 1 times, so its generation is 0xFFFFFFFF and it is the only
\* slot, free.  The observers start empty and record the keys issued from here.
SmInitLongUsed ==
    /\ slots = <<[idx |-> 1, gen |-> -1]>>
    /\ data_map = <<>>
    /\ data = <<>>
    /\ next_slot_idx = 0
    /\ issued = {}
    /\ erased = {}
    /\ sm_last = [op |-> "none"]
    /\ cleared = {}
InitLongUsed == SmInitLongUsed /\ SwInit /\ PwInit /\ FlInit /\ SgInit
SpecSlotMapLongUsed == InitLongUsed /\ [][NextSlotMap]_vars

\* C33: the generation stored in a slot, read as an unsigned 32-bit number,
\* never decreases in a step, and the key returned by an insert has a
\* generation strictly greater than every key issued before for the same slot.
C33_GenerationOrdering ==
    [][/\ \A s \in 0..(Len(slots) - 1) :
             ~Uint32Less(get_gen(At(slots', s)), get_gen(At(slots, s)))
       /\ sm_last'.op = "insert" /\ issued' # issued =>
             \A r \in issued :
                 get_idx(r.key) = get_idx(sm_last'.key) =>
                     Uint32Less(get_gen(r.key), get_gen(sm_last'.key))
    ]_vars

\* C34: emplace<T> of an absent component i stores the signature with exactly
\* bit i added, and erase<T> of a present component i stores the signature
\* with exactly bit i removed.
C34_ExactlyOneBit ==
    /\ sg_last.op = "emplace" /\ sg_last.component \notin sg_last.before =>
          sg_signature = sg_last.before \cup {sg_last.component}
    /\ sg_last.op = "erase" /\ sg_last.component \in sg_last.before =>
          sg_signature = sg_last.before \ {sg_last.component}

\* the nodes that malloc has returned and free has not been given
Allocated == DOMAIN nodes

\* C35: a successful remove frees exactly the leaf that carried the key and
\* the parent of that leaf (nothing else, so not the promoted sibling), and
\* after every step the allocated nodes are exactly the nodes reachable from
\* the root.
C35_NodeOwnership ==
    [][/\ (pw_last'.op = "remove" /\ pw_ops' = pw_ops + 1 /\ pw_last'.res) =>
             \E l \in Leaves :
                 /\ nodes[l].key = pw_last'.key
                 /\ Allocated \ Allocated' =
                       {l} \cup (IF nodes[l].parent # nullptr THEN {nodes[l].parent} ELSE {})
       /\ Allocated' = TreeNodes'
    ]_vars

\* C36: erase(first, last) invalidates exactly the valid slots whose index is in
\* [first, last) and no other slot; erase(begin(), end()) leaves no valid slot.
C36_RangeErase ==
    [][fl_last'.op = "erase_range" /\ fl_last' # fl_last =>
        /\ ValidSlots(fv') =
              ValidSlots(fv) \ {i \in 0..(Len(fv.data) - 1) :
                                    fl_last'.index <= i /\ i < fl_last'.last}
        /\ (fl_last'.index = fv_begin(fv) /\ fl_last'.last = fv_end(fv)) =>
              ValidSlots(fv') = {}
    ]_vars

\* C37: in every state after clear(), a key that insert had returned before the
\* clear does not resolve: find(k) == end() and at(k) is absent, also after
\* inserts that take the same slot index again.
C37_ClearedKeysNeverResolve ==
    \A k \in cleared : find(k) = end /\ at(k) = nullopt

\* C38: in a traversal from begin() to end(), no operator++ reads the valid
\* flag of a slot whose index is data.size() or more.
C38_IncrementReadsInBounds ==
    \A mem \in MemoryOutcomes :
        LET visited == fv_for(fv, fv_begin(fv), mem)
        IN \A n \in 1..Len(visited) :
               \A j \in fv_inc_reads(fv, visited[n], mem) : j < Len(fv.data)

\* a node without its selfcheck bit
WithoutSelfcheck(n) ==
    [key |-> n.key, aabb |-> n.aabb, flag |-> n.flag, parent |-> n.parent,
     childs |-> n.childs]

\* C39: the pair enumeration of update() changes nothing of the tree that the
\* refit of the same update() has produced, apart from selfcheck bits: the
\* root, the set of nodes, and every node's entry handle, fat box, group and
\* parent and child links are the same.
C39_EnumerationReadOnly ==
    [][(pw_last'.op = "update" /\ pw_ops' = pw_ops + 1) =>
        LET w1 == _tree_update(World)
        IN /\ root' = w1.root
           /\ DOMAIN nodes' = DOMAIN w1.nodes
           /\ \A n \in DOMAIN w1.nodes :
                  WithoutSelfcheck(nodes'[n]) = WithoutSelfcheck(w1.nodes[n])
    ]_vars

\* the writes of emplace<T>(entity), component_id<T>() = component, in the
\* state before the call: the destination row is below the capacity of the
\* destination table and T is stored at byte offset column of that row, inside
\* the row and inside the block
emplace_writes_inside(entity, component) ==
    LET signature == spec_of(entity).signature
        new_signature == SetBit(signature, component)
        column == component_offset(component, new_signature)
        arch1 == create_archetype_if_needed(archetypes, new_signature)
        new_archetype == IF BitOf(signature, component) = 1 THEN arch1[signature]
                         ELSE grow_row(arch1[new_signature])
        row == IF BitOf(signature, component) = 1 THEN spec_of(entity).row
               ELSE new_archetype.size - 1
        new_off == row * new_archetype.prefab_size
        at_off == IF BitOf(signature, component) = 1 \/ signature = 0
                  THEN new_off + column
                  ELSE construct_at_offset(new_off, column, component)
    IN /\ row < new_archetype.capacity
       /\ at_off = new_off + column
       /\ column + component_size(component) <= new_archetype.prefab_size
       /\ InBuffer(new_archetype.buf, at_off, component_size(component))
       /\ InBuffer(new_archetype.buf, new_off, new_archetype.prefab_size)
\* the writes of erase<T>(entity) of a component the entity has, in the state
\* before the call: the row written in the smaller table, when one is written
erase_writes_inside(entity, component) ==
    LET signature == spec_of(entity).signature
        new_signature == ClearBit(signature, component)
        arch1 == create_archetype_if_needed(archetypes, new_signature)
        new_archetype == grow_row(arch1[new_signature])
        row == new_archetype.size - 1
    IN new_signature # 0 =>
          /\ row < new_archetype.capacity
          /\ InBuffer(new_archetype.buf, row * new_archetype.prefab_size,
                      new_archetype.prefab_size)

\* C40: every emplace<T> and every erase<T> of a present component writes
\* inside the destination table: the destination row is below the capacity,
\* T is constructed at byte offset column of that row with
\* column + sizeof(T) <= prefab_size, and the bytes written lie in the block.
C40_WritesInsideDestination ==
    [][\A e \in Entities, c \in Components :
          (sw_ops' = sw_ops + 1 /\ sw_last'.entity = e /\ sw_last'.component = c) =>
             /\ sw_last'.op = "emplace" => emplace_writes_inside(e, c)
             /\ (sw_last'.op = "erase" /\ sw_last'.had) => erase_writes_inside(e, c)
    ]_vars

====
